---------------------------- MODULE Spec2Model ----------------------------
(***************************************************************************)
(* Celestial position fixing (starfix_simple.py), the navigation service   *)
(* built on it (celestial_service.py, stars_database.py) and the           *)
(* Flutter/JSON bridge (android_service.py).                               *)
(*                                                                         *)
(* Python floats are modelled as fixed-point integers:                     *)
(*   - an angle is a whole number of centidegrees (1/100 degree), whether  *)
(*     the code holds it in degrees or in radians;                         *)
(*   - a pure number (a sine, a vector component) is scaled by Unit;       *)
(*   - a distance is a whole number of metres.                             *)
(* Every product and quotient rounds to the nearest unit, as a float       *)
(* operation rounds to the nearest float.  A Python exception is a value:  *)
(* an operation that may raise returns [exc, msg, val] with exc = "none"   *)
(* when it returns normally.                                               *)
(***************************************************************************)
EXTENDS Integers, Sequences, FiniteSets, TLC

\* ------------------------------------------------------------------------
\* Fixed-point arithmetic
\* ------------------------------------------------------------------------

\* Scale of pure numbers: 1.0 is Unit.
Unit == 10000

\* Centidegrees in one degree.
Deg == 100

Abs(x) == IF x < 0 THEN -x ELSE x

Sign(x) == IF x < 0 THEN -1 ELSE IF x > 0 THEN 1 ELSE 0

Max2(a, b) == IF a >= b THEN a ELSE b

Min2(a, b) == IF a <= b THEN a ELSE b

\* a / b rounded to the nearest integer, half away from zero (b # 0).
RDiv(a, b) == Sign(a) * Sign(b) * ((Abs(a) + Abs(b) \div 2) \div Abs(b))

\* The product of two Unit-scaled numbers.
Mul(a, b) == RDiv(a * b, Unit)

\* The quotient of two Unit-scaled numbers (b # 0).
Quot(a, b) == RDiv(a * Unit, b)

\* Python's x % 360 on an angle: the result is in [0, 360).
Mod360(x) == x % (360 * Deg)

\* Steps of a float below one degree to one centidegree.  An angle an
\* operator takes "in steps" counts them; a float of 256 degrees or more
\* holds only every Fine-th of them.
Fine == 4

\* The float nearest to x steps: exact below 256 degrees, the nearest
\* multiple of Fine from there on.
RoundFloat(x) ==
    IF Abs(x) >= 256 * Deg * Fine THEN Fine * RDiv(x, Fine) ELSE x

\* C's fmod(x, m), which is exact: the remainder with the sign of x (m > 0).
fmod(x, m) == Sign(x) * (Abs(x) % m)

\* Python's float x % 360, in steps: fmod, and a negative remainder is
\* turned by adding 360, a sum that is rounded as every float sum is.
PyMod360(x) ==
    LET m == 360 * Deg * Fine
        mod == fmod(x, m)
    IN  IF mod < 0 THEN RoundFloat(mod + m) ELSE mod

\* max(-1, min(1, x))
Clamp(x) == Max2(-Unit, Min2(Unit, x))

RECURSIVE SqrtSearch(_, _, _)
SqrtSearch(n, lo, hi) ==
    IF lo >= hi THEN lo
    ELSE LET mid == (lo + hi + 1) \div 2
         IN  IF mid * mid <= n THEN SqrtSearch(n, mid, hi)
             ELSE SqrtSearch(n, lo, mid - 1)

\* floor(sqrt(n)) of a plain integer 0 <= n < 2^31.
ISqrt(n) == SqrtSearch(n, 0, 46340)

\* math.sqrt of a Unit-scaled number x >= 0 (x * Unit stays below 2^31).
Sqrt(x) == LET r == ISqrt(x * Unit)
           IN  IF (r + 1) * (r + 1) - x * Unit < x * Unit - r * r THEN r + 1 ELSE r

\* A call that returned v, and a call that raised exception e with message m.
Ok(v) == [exc |-> "none", msg |-> [text |-> "", got |-> <<>>], val |-> v]

Raise(e, m) == [exc |-> e, msg |-> m, val |-> <<>>]

\* An exception message: its text, and the value an f-string puts in it.
Msg(text) == [text |-> text, got |-> <<>>]

MsgGot(text, v) == [text |-> text, got |-> <<v>>]

\* sin of 0..90 whole degrees, Unit-scaled.
SinTab ==
    <<0, 175, 349, 523, 698, 872, 1045, 1219, 1392, 1564, 1736, 1908, 2079, 2250,
      2419, 2588, 2756, 2924, 3090, 3256, 3420, 3584, 3746, 3907, 4067, 4226, 4384,
      4540, 4695, 4848, 5000, 5150, 5299, 5446, 5592, 5736, 5878, 6018, 6157, 6293,
      6428, 6561, 6691, 6820, 6947, 7071, 7193, 7314, 7431, 7547, 7660, 7771, 7880,
      7986, 8090, 8192, 8290, 8387, 8480, 8572, 8660, 8746, 8829, 8910, 8988, 9063,
      9135, 9205, 9272, 9336, 9397, 9455, 9511, 9563, 9613, 9659, 9703, 9744, 9781,
      9816, 9848, 9877, 9903, 9925, 9945, 9962, 9976, 9986, 9994, 9998, 10000>>

\* sin of an angle in [0, 90] degrees: the table, interpolated linearly.
SinQ(a) ==
    LET k == a \div Deg
        f == a % Deg
    IN  IF f = 0 THEN SinTab[k + 1]
        ELSE SinTab[k + 1] + RDiv((SinTab[k + 2] - SinTab[k + 1]) * f, Deg)

\* math.sin of any angle.
Sin(a) ==
    LET m == Mod360(a)
    IN  IF m <= 90 * Deg THEN SinQ(m)
        ELSE IF m <= 180 * Deg THEN SinQ(180 * Deg - m)
        ELSE IF m <= 270 * Deg THEN -SinQ(m - 180 * Deg)
        ELSE -SinQ(360 * Deg - m)

\* math.cos of any angle.
Cos(a) == Sin(a + 90 * Deg)

RECURSIVE AcosSearch(_, _, _)
AcosSearch(v, lo, hi) ==
    IF lo >= hi THEN lo
    ELSE LET mid == (lo + hi) \div 2
         IN  IF Cos(mid) <= v THEN AcosSearch(v, lo, mid)
             ELSE AcosSearch(v, mid + 1, hi)

\* math.acos of v in [-1, 1]: for v >= 0 the least angle of [0, 90] whose
\* cosine is at most v, and acos(-v) = 180 - acos(v), so that acos(1) = 0 and
\* acos(-1) = 180 exactly.
Acos(v) == IF v >= 0 THEN AcosSearch(v, 0, 90 * Deg)
           ELSE 180 * Deg - AcosSearch(-v, 0, 90 * Deg)

RECURSIVE AsinSearch(_, _, _)
AsinSearch(v, lo, hi) ==
    IF lo >= hi THEN lo
    ELSE LET mid == (lo + hi) \div 2
         IN  IF Sin(mid) >= v THEN AsinSearch(v, lo, mid)
             ELSE AsinSearch(v, mid + 1, hi)

\* math.asin of v in [0, 1]: the least angle of [0, 90] whose sine is at least v.
Asin(v) == AsinSearch(v, 0, 90 * Deg)

\* math.atan2(y, x), in (-180, 180] degrees; atan2(0, 0) = 0.  The angle is
\* taken from the smaller of |x| and |y|, where asin and acos are well
\* conditioned.
Atan2(y, x) ==
    IF x = 0 /\ y = 0 THEN 0
    ELSE LET k == Max2(1, Unit \div Max2(Abs(x), Abs(y)))
             ax == Abs(x) * k
             ay == Abs(y) * k
             h == ISqrt(ax * ax + ay * ay)
             t == IF ay <= ax
                  THEN Asin(Min2(Unit, RDiv(ay * Unit, h)))
                  ELSE Acos(Min2(Unit, RDiv(ax * Unit, h)))
             u == IF x < 0 THEN 180 * Deg - t ELSE t
         IN  IF y < 0 THEN -u ELSE u

\* ------------------------------------------------------------------------
\* starfix_simple.py: constants, vectors, distances
\* ------------------------------------------------------------------------

\* Mean Earth radius, km.
EARTH_RADIUS_KM == 6371

\* Tens of centidegrees in one radian (57.30 degrees).
RadianTenths == 573

\* An arc of c centidegrees (the code: an angle in radians) times the Earth
\* radius: a distance in units of 10 m.
ArcToDist(c) == RDiv(c * EARTH_RADIUS_KM * 10, RadianTenths)

\* A distance in units of 10 m divided by the Earth radius: the angle, in
\* centidegrees.
DistToArc(dist) == RDiv(dist * RadianTenths, EARTH_RADIUS_KM * 10)

LatLon(lat, lon) == [lat |-> lat, lon |-> lon]

to_rectangular(latlon) ==
    LET lat_rad == latlon.lat
        lon_rad == latlon.lon
        x == Mul(Cos(lat_rad), Cos(lon_rad))
        y == Mul(Cos(lat_rad), Sin(lon_rad))
        z == Sin(lat_rad)
    IN  <<x, y, z>>

\* x**2 on a float: the square of a float too small to have one underflows
\* to 0.0.  The smallest non-zero components of the model stand for those
\* floats.
Square(x) == IF Abs(x) = 1 THEN 0 ELSE x * x

\* sqrt(x**2 + y**2 + z**2)
Magnitude(vec) == ISqrt(Square(vec[1]) + Square(vec[2]) + Square(vec[3]))

to_latlon(vec) ==
    LET magnitude == Magnitude(vec)
    IN  IF magnitude = 0
        THEN Raise("ValueError", Msg("Zero vector cannot be converted to LatLon"))
        ELSE LET x == RDiv(vec[1] * Unit, magnitude)
                 y == RDiv(vec[2] * Unit, magnitude)
                 z == RDiv(vec[3] * Unit, magnitude)
                 lat == Atan2(z, ISqrt(x * x + y * y))
                 lon == Atan2(y, x)
             IN  Ok(LatLon(lat, lon))

normalize_vect(vec) ==
    LET magnitude == Magnitude(vec)
    IN  IF magnitude = 0 THEN vec
        ELSE [i \in 1..3 |-> RDiv(vec[i] * Unit, magnitude)]

\* The haversine distance, in units of 10 m.  a is kept to the square of
\* Unit, so that sqrt(a) and sqrt(1-a) are Unit-scaled.  sqrt(1-a) raises
\* ValueError ("math domain error") when rounding has pushed a above 1.
spherical_distance(latlon1, latlon2) ==
    LET lat1 == latlon1.lat
        lon1 == latlon1.lon
        lat2 == latlon2.lat
        lon2 == latlon2.lon
        dlat == lat2 - lat1
        dlon == lon2 - lon1
        sdlat == Sin(RDiv(dlat, 2))
        sdlon == Sin(RDiv(dlon, 2))
        a == sdlat * sdlat + Mul(Mul(Cos(lat1), Cos(lat2)), sdlon) * sdlon
    IN  IF a > Unit * Unit THEN Raise("ValueError", Msg("math domain error"))
        ELSE Ok(ArcToDist(2 * Atan2(ISqrt(a), ISqrt(Unit * Unit - a))))

\* ------------------------------------------------------------------------
\* starfix_simple.py: atmospheric corrections and hour angle
\* ------------------------------------------------------------------------

\* A refraction that is computed at the horizon and at the zenith too.
atmospheric_refraction_closed(altitude_deg, temperature, pressure) ==
    IF altitude_deg < 0 \/ altitude_deg > 90 * Deg THEN 0
    ELSE LET h == altitude_deg
             arg == h + RDiv(731 * Deg, h + 440)
             R0 == Quot(Cos(arg), Sin(arg))
             temp_kelvin == temperature + 2732
             R1 == RDiv(RDiv(R0 * pressure, 101) * 2830, temp_kelvin)
         IN  RDiv(R1 * Deg, 60 * Unit)

\* Refraction in centidegrees.  altitude_deg in centidegrees, temperature in
\* tenths of a degree Celsius, pressure in kPa.
atmospheric_refraction(altitude_deg, temperature, pressure) ==
    IF altitude_deg <= 0 \/ altitude_deg >= 90 * Deg THEN 0
    ELSE LET h == altitude_deg
             arg == h + RDiv(731 * Deg, h + 440)
             R0 == Quot(Cos(arg), Sin(arg))
             temp_kelvin == temperature + 2732
             R1 == RDiv(RDiv(R0 * pressure, 101) * 2830, temp_kelvin)
         IN  RDiv(R1 * Deg, 60 * Unit)

\* A dip computed from the distance to sea level, above it or below.
horizon_dip_below(observer_height_m) ==
    IF observer_height_m = 0 THEN 0
    ELSE LET dip_arcmin == 176 * ISqrt(Abs(observer_height_m) * 10000)
         IN  RDiv(dip_arcmin, 60 * 100)

\* Dip in centidegrees for an observer height in metres.
horizon_dip(observer_height_m) ==
    IF observer_height_m <= 0 THEN 0
    ELSE LET dip_arcmin == 176 * ISqrt(observer_height_m * 10000)
         IN  RDiv(dip_arcmin, 60 * 100)

\* A datetime is [day, hour]: whole days since 2000-01-01 and the hour of
\* the day (minutes and seconds are zero in the model's times), so that
\* days_since_j2000 = day - 1/2 + hour/24.
\* GMST = 280.46061837 + 360.98564736629 * days_since_j2000, plus 15 degrees
\* for every hour since midnight, modulo 360; GHA = (GMST - RA) % 360.
\* Whole turns are dropped before the products are formed: 360.98564736629
\* degrees a day is 180 degrees + 49.28237 centidegrees a half day and
\* 1504.11 centidegrees an hour.  gmst is in centidegrees; ra and the
\* result of calculate_gha are in steps.
gmst(observation_time) ==
    LET half_days == 2 * observation_time.day - 1
        hours_since_midnight == observation_time.hour
        gmst0 == 28046 + 180 * Deg + half_days * 49
                    + RDiv(half_days * 28237, 100000)
                    + RDiv(hours_since_midnight * 150411, 100)
    IN  Mod360(gmst0 + hours_since_midnight * 15 * Deg)

calculate_gha(ra, observation_time) ==
    PyMod360(RoundFloat(Fine * gmst(observation_time) - ra))

\* LHA = (GHA + longitude) % 360, all three in steps.
calculate_lha(gha, observer_lon) == PyMod360(RoundFloat(gha + observer_lon))

\* ------------------------------------------------------------------------
\* starfix_simple.py: Sight
\* ------------------------------------------------------------------------

\* A time string is [ok, day, hour]: ok is whether datetime.fromisoformat
\* accepts it, and [day, hour] is the datetime it parses to.
fromisoformat(time) ==
    IF time.ok THEN Ok([day |-> time.day, hour |-> time.hour])
    ELSE Raise("ValueError", Msg("Invalid isoformat string"))

\* Default temperature (10.0 C, in tenths) and pressure (101 kPa).
DefaultTemperature == 100

DefaultPressure == 101

\* -90 <= dec <= 90
DecInRange(dec) == -90 * Deg <= dec /\ dec <= 90 * Deg

\* The closed interval, 0 <= altitude <= 90, in place of the open one.
AltitudeInRange_closed(altitude) == 0 <= altitude /\ altitude <= 90 * Deg

\* 0 < altitude < 90
AltitudeInRange(altitude) == 0 < altitude /\ altitude < 90 * Deg

\* A correction whose refraction is computed from the altitude already
\* corrected for dip.
CorrectAltitude_chained(altitude, observer_height, temperature, pressure, apply_refraction, apply_dip) ==
    LET after_dip ==
            IF apply_dip /\ observer_height > 0
            THEN altitude - horizon_dip(observer_height)
            ELSE altitude
    IN  IF apply_refraction
        THEN after_dip - atmospheric_refraction(after_dip, temperature, pressure)
        ELSE after_dip

\* Sight.__init__: self.corrected_altitude, from the observed altitude.
CorrectAltitude(altitude, observer_height, temperature, pressure, apply_refraction, apply_dip) ==
    LET refraction == atmospheric_refraction(altitude, temperature, pressure)
        after_refraction ==
            IF apply_refraction THEN altitude - refraction ELSE altitude
    IN  IF apply_dip /\ observer_height > 0
        THEN after_refraction - horizon_dip(observer_height)
        ELSE after_refraction

\* Sight.__init__.  steps lists the statements reached, in order.
Sight_init(ra, dec, altitude, time, observer_height, temperature, pressure, apply_refraction, apply_dip) ==
    LET parsed == fromisoformat(time)
        corrected_altitude ==
            CorrectAltitude(altitude, observer_height, temperature, pressure,
                            apply_refraction, apply_dip)
    IN  IF ~DecInRange(dec)
        THEN [exc |-> "ValueError",
              msg |-> MsgGot("Declination must be between -90 and +90, got", dec),
              val |-> <<>>,
              steps |-> <<"check_dec">>]
        ELSE IF parsed.exc # "none"
        THEN [exc |-> parsed.exc, msg |-> parsed.msg, val |-> <<>>,
              steps |-> <<"check_dec", "parse_time">>]
        ELSE IF ~AltitudeInRange(altitude)
        THEN [exc |-> "ValueError",
              msg |-> MsgGot("Altitude must be between 0 and 90 degrees, got", altitude),
              val |-> <<>>,
              steps |-> <<"check_dec", "parse_time", "check_altitude">>]
        ELSE [exc |-> "none",
              msg |-> Msg(""),
              val |-> [ra |-> Mod360(ra),
                       dec |-> dec,
                       time |-> parsed.val,
                       observed_altitude |-> altitude,
                       observer_height |-> observer_height,
                       temperature |-> temperature,
                       pressure |-> pressure,
                       corrected_altitude |-> corrected_altitude,
                       gha |-> calculate_gha(Fine * ra, parsed.val) \div Fine],
              steps |-> <<"check_dec", "parse_time", "check_altitude",
                          "correct_altitude", "calculate_gha">>]

RECURSIVE NormalizeLon(_)
NormalizeLon(gp_lon) ==
    IF gp_lon < -180 * Deg THEN NormalizeLon(gp_lon + 360 * Deg)
    ELSE IF gp_lon > 180 * Deg THEN NormalizeLon(gp_lon - 360 * Deg)
    ELSE gp_lon

get_gp(self) == LatLon(self.dec, NormalizeLon(-self.gha))

get_distance_from_gp(self) ==
    LET co_altitude == 90 * Deg - self.corrected_altitude
    IN  ArcToDist(co_altitude)

\* ------------------------------------------------------------------------
\* starfix_simple.py: circle of position intersection
\*
\* A value the code names once and reads several times is the parameter of
\* an operator here, so that it is evaluated once.
\* ------------------------------------------------------------------------

Dot(u, v) == Mul(u[1], v[1]) + Mul(u[2], v[2]) + Mul(u[3], v[3])

Cross(u, v) ==
    <<Mul(u[2], v[3]) - Mul(u[3], v[2]),
      Mul(u[3], v[1]) - Mul(u[1], v[3]),
      Mul(u[1], v[2]) - Mul(u[2], v[1])>>

\* q1 / sin(d), clamped to [-1, 1], for q1 = num / sin(r2).  A first quotient
\* already beyond 1 in size stays beyond 1, since 0 < sin(d) <= 1.
\* math.sin(math.pi) is 1.2e-16, not zero: at d = 180 degrees the quotient
\* is beyond 1 in size unless its numerator is zero.
ClampQuotient(q1, d) ==
    IF d = 180 * Deg THEN Sign(q1) * Unit
    ELSE IF Abs(q1) >= Unit THEN Clamp(q1)
    ELSE Clamp(RDiv(q1 * Unit, Sin(d)))

\* (cos(r1) - cos(r2)*cos(d)) / (sin(r2)*sin(d)), clamped to [-1, 1], for
\* r2 # 0 and d # 0.  The quotient is taken by sin(r2) and then by sin(d), so
\* that a product of two small sines does not round to zero.
ClampedCosA(r1, r2, d) ==
    ClampQuotient(RDiv((Cos(r1) - Mul(Cos(r2), Cos(d))) * Unit, Sin(r2)), d)

\* The candidate vec1*cos(a) + sign * perp*sin(a)*sin(d), normalised.
Candidate(vec1, perp, a, d, sign) ==
    normalize_vect([i \in 1..3 |->
        Mul(vec1[i], Cos(a)) + sign * Mul(Mul(perp[i], Sin(a)), Sin(d))])

\* return to_latlon(int1_vec), to_latlon(int2_vec)
BothCandidates(int1, int2) ==
    IF int1.exc # "none" THEN int1
    ELSE IF int2.exc # "none" THEN int2
    ELSE Ok(<<int1.val, int2.val>>)

\* The checks on d, r1 and r2 and the intersection.  None is <<>>, a pair of
\* points is <<int1, int2>>.  The division raises ZeroDivisionError when
\* sin(r2)*sin(d) is zero, which for floats is when r2 or d is zero.
IntersectAt(vec1, vec2, r1, r2, d) ==
    IF d > r1 + r2 THEN Ok(<<>>)
    ELSE IF d < Abs(r1 - r2) THEN Ok(<<>>)
    ELSE IF d = 0 /\ Abs(r1 - r2) > 0 THEN Ok(<<>>)
    ELSE IF r2 = 0 \/ d = 0
    THEN Raise("ZeroDivisionError", Msg("float division by zero"))
    ELSE LET a == Acos(ClampedCosA(r1, r2, d))
             perp == normalize_vect(Cross(vec1, vec2))
         IN  BothCandidates(to_latlon(Candidate(vec1, perp, a, d, 1)),
                            to_latlon(Candidate(vec1, perp, a, d, -1)))

\* The angle d between the two GPs.
AngleBetween(vec1, vec2) == Acos(Clamp(Dot(vec1, vec2)))

IntersectVecs(vec1, vec2, r1, r2) ==
    IntersectAt(vec1, vec2, r1, r2, AngleBetween(vec1, vec2))

calculate_circle_intersection(gp1, dist1, gp2, dist2) ==
    IntersectVecs(to_rectangular(gp1), to_rectangular(gp2),
                  DistToArc(dist1), DistToArc(dist2))

\* ------------------------------------------------------------------------
\* starfix_simple.py: SightCollection
\* ------------------------------------------------------------------------

\* A constructor that rejects only the empty list.
SightCollection_init_nonempty(sights) ==
    IF Len(sights) < 1
    THEN Raise("ValueError", Msg("SightCollection requires at least 2 sights"))
    ELSE Ok([sights |-> sights])

SightCollection_init(sights) ==
    IF Len(sights) < 2
    THEN Raise("ValueError", Msg("SightCollection requires at least 2 sights"))
    ELSE Ok([sights |-> sights])

\* int1 if dist_to_int1 <= dist_to_int2 else int2: a tie goes to the first.
Closest_tie_first(dist_to_int1, dist_to_int2) ==
    IF dist_to_int1.exc # "none" THEN dist_to_int1
    ELSE IF dist_to_int2.exc # "none" THEN dist_to_int2
    ELSE Ok(IF dist_to_int1.val <= dist_to_int2.val THEN 1 ELSE 2)

\* int1 if dist_to_int1 < dist_to_int2 else int2, as the index chosen.
Closest(dist_to_int1, dist_to_int2) ==
    IF dist_to_int1.exc # "none" THEN dist_to_int1
    ELSE IF dist_to_int2.exc # "none" THEN dist_to_int2
    ELSE Ok(IF dist_to_int1.val < dist_to_int2.val THEN 1 ELSE 2)

\* A choice that selects the second candidate when there is no estimate.
ChooseIntersection_second(estimated_position, int1, int2) ==
    IF estimated_position # <<>>
    THEN Closest(spherical_distance(estimated_position[1], int1),
                 spherical_distance(estimated_position[1], int2))
    ELSE Ok(2)

\* The choice among the two candidates of one pair: the index chosen (1 or
\* 2), or the exception spherical_distance raised.  estimated_position is
\* <<>> for None and <<p>> for a position p.
ChooseIntersection(estimated_position, int1, int2) ==
    IF estimated_position # <<>>
    THEN Closest(spherical_distance(estimated_position[1], int1),
                 spherical_distance(estimated_position[1], int2))
    ELSE Ok(1)

NoPair == [kind |-> "none", exc |-> "none", msg |-> Msg(""), ints |-> <<>>, pick |-> 0]

Chosen(ints, choice) ==
    IF choice.exc # "none"
    THEN [NoPair EXCEPT !.kind = "error", !.exc = choice.exc, !.msg = choice.msg,
                        !.ints = ints]
    ELSE [NoPair EXCEPT !.kind = "chosen", !.ints = ints, !.pick = choice.val]

\* What a fix does with the solver's answer for one pair: "error" (an
\* exception leaves the fix), "none" (no intersection) or "chosen" (the
\* candidate ints[pick] is selected).
PairOutcome(intersections, estimated_position) ==
    IF intersections.exc # "none"
    THEN [NoPair EXCEPT !.kind = "error", !.exc = intersections.exc,
                        !.msg = intersections.msg]
    ELSE IF intersections.val = <<>> THEN NoPair
    ELSE Chosen(intersections.val,
                ChooseIntersection(estimated_position, intersections.val[1],
                                   intersections.val[2]))

PairFix(sight1, sight2, estimated_position) ==
    PairOutcome(calculate_circle_intersection(get_gp(sight1),
                                              get_distance_from_gp(sight1),
                                              get_gp(sight2),
                                              get_distance_from_gp(sight2)),
                estimated_position)

\* A fix returns [exc, msg, val, pairs]: val is the position returned, and
\* pairs lists, in the order the code visits them, what was done with each
\* pair of sights (i, j and the PairFix outcome).
FixResult(exc, msg, val, pairs) ==
    [exc |-> exc, msg |-> msg, val |-> val, pairs |-> pairs]

\* A two-sight fix that answers the origin when the circles do not meet.
TwoSightResult_default(p) ==
    IF p.kind = "error" THEN FixResult(p.exc, p.msg, <<>>, <<[i |-> 1, j |-> 2, fix |-> p]>>)
    ELSE FixResult("none", Msg(""),
                   IF p.kind = "none" THEN LatLon(0, 0) ELSE p.ints[p.pick],
                   <<[i |-> 1, j |-> 2, fix |-> p]>>)

TwoSightResult(p) ==
    IF p.kind = "error" THEN FixResult(p.exc, p.msg, <<>>, <<[i |-> 1, j |-> 2, fix |-> p]>>)
    ELSE IF p.kind = "none"
    THEN FixResult("ValueError", Msg("No intersection found - circles don't meet"),
                   <<>>, <<[i |-> 1, j |-> 2, fix |-> p]>>)
    ELSE FixResult("none", Msg(""), p.ints[p.pick], <<[i |-> 1, j |-> 2, fix |-> p]>>)

_calculate_two_sight_fix(self, estimated_position) ==
    TwoSightResult(PairFix(self.sights[1], self.sights[2], estimated_position))

\* The pairs (i, j), i < j, of 1..n in the order of the two nested loops.
RECURSIVE PairSeq(_, _, _)
PairSeq(n, i, j) ==
    IF i >= n THEN <<>>
    ELSE IF j > n THEN PairSeq(n, i + 1, i + 2)
    ELSE <<<<i, j>>>> \o PairSeq(n, i, j + 1)

\* The loop over the pairs from the k-th on, with the outcomes so far in
\* done: it ends at the first pair that raises.
RECURSIVE PairLoop(_, _, _, _, _)
PairLoop(sights, estimated_position, todo, k, done) ==
    IF k > Len(todo) THEN done
    ELSE IF done # <<>> /\ done[Len(done)].fix.kind = "error" THEN done
    ELSE PairLoop(sights, estimated_position, todo, k + 1,
                  Append(done, [i |-> todo[k][1], j |-> todo[k][2],
                                fix |-> PairFix(sights[todo[k][1]],
                                                sights[todo[k][2]],
                                                estimated_position)]))

RECURSIVE SumVecs(_, _, _)
SumVecs(vectors, k, acc) ==
    IF k > Len(vectors) THEN acc
    ELSE SumVecs(vectors, k + 1, [i \in 1..3 |-> acc[i] + vectors[k][i]])

\* The average of the chosen positions, normalised.
AveragePosition(positions) ==
    to_latlon(normalize_vect(
        [i \in 1..3 |->
            RDiv(SumVecs([k \in 1..Len(positions) |-> to_rectangular(positions[k])],
                         1, <<0, 0, 0>>)[i],
                 Len(positions))]))

\* positions, from the pairs in which a candidate was chosen.
ChosenPositions(chosen) == [k \in 1..Len(chosen) |-> chosen[k].fix.ints[chosen[k].fix.pick]]

MultiSightAverage(average, pairs) == FixResult(average.exc, average.msg, average.val, pairs)

MultiSightResult(pairs, positions) ==
    IF pairs # <<>> /\ pairs[Len(pairs)].fix.kind = "error"
    THEN FixResult(pairs[Len(pairs)].fix.exc, pairs[Len(pairs)].fix.msg, <<>>, pairs)
    ELSE IF Len(positions) = 0
    THEN FixResult("ValueError", Msg("No valid intersections found"), <<>>, pairs)
    ELSE MultiSightAverage(AveragePosition(positions), pairs)

IsChosen(q) == q.fix.kind = "chosen"

MultiSightPairs(pairs) ==
    MultiSightResult(pairs, ChosenPositions(SelectSeq(pairs, IsChosen)))

_calculate_multi_sight_fix(self, estimated_position) ==
    MultiSightPairs(PairLoop(self.sights, estimated_position,
                             PairSeq(Len(self.sights), 1, 2), 1, <<>>))

get_intersections(self, estimated_position) ==
    IF Len(self.sights) = 2
    THEN _calculate_two_sight_fix(self, estimated_position)
    ELSE _calculate_multi_sight_fix(self, estimated_position)

\* A result dictionary that reports the sights of the pairs in which a
\* candidate was chosen, and no other.
PositionDict_chosen(self, position) ==
    IF position.exc # "none" THEN position
    ELSE LET reported ==
                 SelectSeq(self.sights,
                           LAMBDA sight :
                               \E k \in 1..Len(position.pairs) :
                                   /\ position.pairs[k].fix.kind = "chosen"
                                   /\ sight \in {self.sights[position.pairs[k].i],
                                                 self.sights[position.pairs[k].j]})
         IN  [position EXCEPT !.val =
                 [latitude |-> position.val.lat,
                  longitude |-> position.val.lon,
                  number_of_sights |-> Len(reported),
                  observation_times |->
                      [k \in 1..Len(reported) |-> reported[k].time]]]

\* The result dictionary of calculate_position.
PositionDict(self, position) ==
    IF position.exc # "none" THEN position
    ELSE [position EXCEPT !.val =
            [latitude |-> position.val.lat,
             longitude |-> position.val.lon,
             number_of_sights |-> Len(self.sights),
             observation_times |->
                 [k \in 1..Len(self.sights) |-> self.sights[k].time]]]

\* calculate_position: the result dictionary, or the exception of the fix.
calculate_position(self, estimated_position) ==
    PositionDict(self, get_intersections(self, estimated_position))

\* ------------------------------------------------------------------------
\* stars_database.py, restricted to three stars and one planet
\*
\* An optional value is <<>> for None (or an absent key) and <<v>> for v.
\* Magnitudes are in hundredths.  The Arabic names are written in Latin
\* letters.
\* ------------------------------------------------------------------------

STARS_DB ==
    <<[name |-> "Sirius", arabic |-> "al-shira al-yamaniya",
       radec |-> <<10129, -1672>>, magnitude |-> -146],
      [name |-> "Canopus", arabic |-> "suhayl",
       radec |-> <<9599, -5270>>, magnitude |-> -74],
      [name |-> "Polaris", arabic |-> "al-najm al-qutbi",
       radec |-> <<3795, 8926>>, magnitude |-> 198]>>

\* A planet has no "ra" and no "dec".
PLANETS_DB ==
    <<[name |-> "Venus", arabic |-> "al-zuhara", radec |-> <<>>, magnitude |-> -400]>>

\* str.upper, on the names that occur.
upper(name) ==
    CASE name \in {"Sirius", "sirius", "SIRIUS"} -> "SIRIUS"
      [] name \in {"Canopus", "canopus"} -> "CANOPUS"
      [] name \in {"Polaris", "polaris"} -> "POLARIS"
      [] name \in {"Venus", "venus"} -> "VENUS"
      [] name \in {"Nowhere", "nowhere"} -> "NOWHERE"
      [] OTHER -> name

\* The first entry of db the test admits, or None.
FirstOf(hits) == IF hits = <<>> THEN <<>> ELSE <<hits[1]>>

get_star_by_name(name) ==
    FirstOf(SelectSeq(STARS_DB, LAMBDA body : upper(body.name) = upper(name)))

get_star_by_arabic_name(arabic_name) ==
    FirstOf(SelectSeq(STARS_DB, LAMBDA body : body.arabic = arabic_name))

get_celestial_body(name) ==
    IF get_star_by_name(name) # <<>> THEN get_star_by_name(name)
    ELSE FirstOf(SelectSeq(PLANETS_DB, LAMBDA body : upper(body.name) = upper(name)))

\* (ra, dec), or None when the body is not found or has no "ra" and "dec".
CoordinatesOf(star) == IF star # <<>> /\ star[1].radec # <<>> THEN <<star[1].radec>> ELSE <<>>

\* A lookup that answers (0, 0) for a body it does not know.
get_star_coordinates_default(name) ==
    IF get_celestial_body(name) # <<>> /\ get_celestial_body(name)[1].radec # <<>>
    THEN <<get_celestial_body(name)[1].radec>>
    ELSE <<<<0, 0>>>>

get_star_coordinates(name) == CoordinatesOf(get_celestial_body(name))

\* stars.sort(key=magnitude): insertion of star into a sorted list, after
\* the entries no dimmer than it (the sort is stable).
RECURSIVE InsertSorted(_, _)
InsertSorted(stars, star) ==
    IF stars = <<>> THEN <<star>>
    ELSE IF star.magnitude < stars[1].magnitude THEN <<star>> \o stars
    ELSE <<stars[1]>> \o InsertSorted(Tail(stars), star)

RECURSIVE SortByMagnitude(_, _, _)
SortByMagnitude(stars, k, sorted) ==
    IF k > Len(stars) THEN sorted
    ELSE SortByMagnitude(stars, k + 1, InsertSorted(sorted, stars[k]))

list_navigation_stars(min_magnitude) ==
    SortByMagnitude(SelectSeq(STARS_DB, LAMBDA body : body.magnitude <= min_magnitude),
                    1, <<>>)

\* ------------------------------------------------------------------------
\* celestial_service.py: CelestialNavigationService
\*
\* A dictionary the service or the bridge returns is a record of all the
\* keys such dictionaries have, with keys the set of those present.
\* ------------------------------------------------------------------------

Dict(keys) ==
    [keys |-> keys, success |-> FALSE, message |-> "", error |-> "",
     used_sights |-> <<>>, calculated_position |-> <<>>,
     detected_stars |-> <<>>, stars |-> <<>>, star |-> <<>>, count |-> 0]

\* result = {'success': False, 'message': '', 'used_sights': [],
\*           'calculated_position': None}
NewResult == Dict({"success", "message", "used_sights", "calculated_position"})

\* str(len(sights)), for the counts that occur.
CountText(n) == IF n = 0 THEN "0" ELSE IF n = 1 THEN "1" ELSE "2+"

\* A dictionary of star data, or something that is no dictionary.
StarData(name, ra, dec, altitude, time) ==
    [isdict |-> TRUE, name |-> name, ra |-> ra, dec |-> dec,
     altitude |-> altitude, time |-> time]

NotADict == [isdict |-> FALSE, name |-> <<>>, ra |-> <<>>, dec |-> <<>>,
             altitude |-> <<>>, time |-> <<>>]

NoSights == [sights |-> <<>>, used_sights |-> <<>>]

\* An append to used_sights that is made before the constructor is called,
\* so that a star whose Sight fails is listed too.
AppendSight_listed(acc, star, ra, dec, altitude, made) ==
    [sights |-> IF made.exc # "none" THEN acc.sights ELSE Append(acc.sights, made.val),
     used_sights |-> Append(acc.used_sights,
                            [star |-> star, ra |-> ra, dec |-> dec,
                             altitude |-> altitude])]

\* sights.append(sight) and result['used_sights'].append(...), when the
\* constructor returned; the exception is swallowed otherwise.
AppendSight(acc, star, ra, dec, altitude, made) ==
    IF made.exc # "none" THEN acc
    ELSE [sights |-> Append(acc.sights, made.val),
          used_sights |-> Append(acc.used_sights,
                                 [star |-> star, ra |-> ra, dec |-> dec,
                                  altitude |-> altitude])]

\* One pass of the loop of calculate_position_from_data.
SightFromData(acc, star_data) ==
    IF ~star_data.isdict THEN acc
    ELSE IF \/ star_data.ra = <<>> \/ star_data.dec = <<>>
            \/ star_data.altitude = <<>> \/ star_data.time = <<>>
    THEN acc
    ELSE AppendSight(acc,
                     IF star_data.name = <<>> THEN "Unknown" ELSE star_data.name[1],
                     star_data.ra[1], star_data.dec[1], star_data.altitude[1],
                     Sight_init(star_data.ra[1], star_data.dec[1], star_data.altitude[1],
                                star_data.time[1], 0, DefaultTemperature, DefaultPressure, TRUE, TRUE))

RECURSIVE SightsFromData(_, _, _)
SightsFromData(stars_data, k, acc) ==
    IF k > Len(stars_data) THEN acc
    ELSE SightsFromData(stars_data, k + 1, SightFromData(acc, stars_data[k]))

\* SightCollection(sights).calculate_position(estimated_position)
CollectionFix(made, estimated_position) ==
    IF made.exc # "none" THEN made ELSE calculate_position(made.val, estimated_position)

\* The assignments after the fix returns, without the one to 'success'.
FixOutcome_no_success(result, position_result) ==
    IF position_result.exc # "none"
    THEN [result EXCEPT !.message = "Error calculating position: " \o position_result.msg.text]
    ELSE [result EXCEPT !.calculated_position = <<position_result.val>>,
                        !.message = "Position calculated successfully"]

\* The try block around the fix: the three assignments when it returns, the
\* message when it raises.
FixOutcome(result, position_result) ==
    IF position_result.exc # "none"
    THEN [result EXCEPT !.message = "Error calculating position: " \o position_result.msg.text]
    ELSE [result EXCEPT !.calculated_position = <<position_result.val>>,
                        !.success = TRUE,
                        !.message = "Position calculated successfully"]

\* The end of calculate_position_from_data, from the check of len(sights).
DataOutcome(acc) ==
    IF Len(acc.sights) < 2
    THEN [NewResult EXCEPT
            !.used_sights = acc.used_sights,
            !.message = "Not enough valid sights (need 2+, got "
                            \o CountText(Len(acc.sights)) \o ")"]
    ELSE FixOutcome([NewResult EXCEPT !.used_sights = acc.used_sights],
                    CollectionFix(SightCollection_init(acc.sights), <<>>))

\* stars_data is None (<<>>) or a list (<<list>>).
calculate_position_from_data(stars_data) ==
    IF stars_data = <<>> \/ Len(stars_data[1]) < 2
    THEN [NewResult EXCEPT !.message = "Need at least 2 star observations"]
    ELSE DataOutcome(SightsFromData(stars_data[1], 1, NoSights))

\* An observation: a dictionary with optional 'name' and 'altitude', or
\* something that is no dictionary.
Observation(name, altitude) == [isdict |-> TRUE, name |-> name, altitude |-> altitude]

NotAnObservation == [isdict |-> FALSE, name |-> <<>>, altitude |-> <<>>]

\* The loop of calculate_position_from_star_names from the k-th observation
\* on: the star data built, or the exception of obs.get on what is no
\* dictionary.
RECURSIVE StarsDataFromNames(_, _, _, _)
StarsDataFromNames(observations, observation_time, k, stars_data) ==
    IF k > Len(observations) THEN Ok(stars_data)
    ELSE IF ~observations[k].isdict
    THEN Raise("AttributeError", Msg("'int' object has no attribute 'get'"))
    ELSE IF \/ observations[k].name = <<>> \/ observations[k].name = <<"">>
            \/ observations[k].altitude = <<>>
    THEN StarsDataFromNames(observations, observation_time, k + 1, stars_data)
    ELSE IF get_star_coordinates(observations[k].name[1]) = <<>>
    THEN StarsDataFromNames(observations, observation_time, k + 1, stars_data)
    ELSE StarsDataFromNames(observations, observation_time, k + 1,
            Append(stars_data,
                   StarData(observations[k].name,
                            <<get_star_coordinates(observations[k].name[1])[1][1]>>,
                            <<get_star_coordinates(observations[k].name[1])[1][2]>>,
                            observations[k].altitude,
                            <<observation_time>>)))

\* return self.calculate_position_from_data(stars_data)
NamesOutcome(stars_data) ==
    IF stars_data.exc # "none" THEN stars_data
    ELSE Ok(calculate_position_from_data(<<stars_data.val>>))

\* datetime.now().isoformat(): a string that parses to now.
isoformat(now) == [ok |-> TRUE, day |-> now.day, hour |-> now.hour]

\* calculate_position_from_star_names: the dictionary returned, or the
\* exception raised.  observations is None or a list, observation_time None
\* or a string, and now is what datetime.now() answers.  estimated_position
\* is not read.
calculate_position_from_star_names(observations, observation_time, estimated_position, now) ==
    IF observations = <<>> \/ Len(observations[1]) < 2
    THEN Ok([NewResult EXCEPT !.message = "Need at least 2 observations"])
    ELSE NamesOutcome(
            StarsDataFromNames(observations[1],
                               IF observation_time = <<>> THEN isoformat(now)
                               ELSE observation_time[1],
                               1, <<>>))

\* user_altitudes[star_name], or None: user_altitudes is None or a list of
\* (name, altitude) items with distinct names.
AltitudeOf(user_altitudes, star_name) ==
    IF user_altitudes = <<>> THEN <<>>
    ELSE IF SelectSeq(user_altitudes[1], LAMBDA item : item.name = star_name) = <<>>
    THEN <<>>
    ELSE SelectSeq(user_altitudes[1], LAMBDA item : item.name = star_name)[1].altitude

\* One pass of the loop of process_image over the detected stars.
SightFromStar(acc, star, altitude, observation_time) ==
    IF star.name = <<>> \/ star.name = <<"">> THEN acc
    ELSE IF altitude = <<>> THEN acc
    ELSE IF star.ra = <<>> \/ star.dec = <<>> THEN acc
    ELSE AppendSight(acc, star.name[1], star.ra[1], star.dec[1], altitude[1],
                     Sight_init(star.ra[1], star.dec[1], altitude[1], observation_time,
                                0, DefaultTemperature, DefaultPressure, TRUE, TRUE))

RECURSIVE SightsFromStars(_, _, _, _, _)
SightsFromStars(stars, user_altitudes, observation_time, k, acc) ==
    IF k > Len(stars) THEN acc
    ELSE SightsFromStars(stars, user_altitudes, observation_time, k + 1,
            SightFromStar(acc, stars[k],
                          IF stars[k].name = <<>> THEN <<>>
                          ELSE AltitudeOf(user_altitudes, stars[k].name[1]),
                          observation_time))

\* est_pos: None, or LatLon(lat, lon) with 0 for a key the dictionary lacks.
\* An estimated position is None or a dictionary with optional 'lat', 'lon'.
EstPos(estimated_position) ==
    IF estimated_position = <<>> THEN <<>>
    ELSE IF estimated_position[1].lat = <<>> /\ estimated_position[1].lon = <<>> THEN <<>>
    ELSE <<LatLon(IF estimated_position[1].lat = <<>> THEN 0
                  ELSE estimated_position[1].lat[1],
                  IF estimated_position[1].lon = <<>> THEN 0
                  ELSE estimated_position[1].lon[1])>>

ImageResult ==
    Dict({"success", "message", "detected_stars", "used_sights",
          "calculated_position", "metadata"})

\* The end of process_image, from the check of len(sights).
ImageOutcome(result, acc, estimated_position) ==
    IF Len(acc.sights) < 2
    THEN [result EXCEPT
            !.used_sights = acc.used_sights,
            !.message = "Not enough sights with altitudes (need 2+, got "
                            \o CountText(Len(acc.sights)) \o ")"]
    ELSE FixOutcome([result EXCEPT !.used_sights = acc.used_sights],
                    CollectionFix(SightCollection_init(acc.sights),
                                  EstPos(estimated_position)))

\* process_image, with the defaults for observer_height, temperature and
\* pressure.  detection is what detect_stars_from_file answers: None, or a
\* dictionary with 'success' and 'stars'.
process_image(image_path, user_altitudes, observation_time, estimated_position, detection, now) ==
    IF detection = <<>> \/ ~detection[1].success
    THEN [ImageResult EXCEPT !.message = "Failed to detect stars in image"]
    ELSE ImageOutcome([ImageResult EXCEPT !.detected_stars = detection[1].stars],
                      SightsFromStars(detection[1].stars, user_altitudes,
                                      IF observation_time = <<>> THEN isoformat(now)
                                      ELSE observation_time[1],
                                      1, NoSights),
                      estimated_position)

get_available_stars(min_magnitude) == list_navigation_stars(min_magnitude)

\* ------------------------------------------------------------------------
\* android_service.py: AndroidBridgeService
\* ------------------------------------------------------------------------

\* The request data: a dictionary whose keys are all optional.
NoData ==
    [image_path |-> <<>>, altitudes |-> <<>>, time |-> <<>>,
     estimated_position |-> <<>>, observations |-> <<>>, stars |-> <<>>,
     name |-> <<>>, arabic_name |-> <<>>, min_magnitude |-> <<>>]

\* data.get(...) on None
NoneHasNoGet == Raise("AttributeError", Msg("'NoneType' object has no attribute 'get'"))

ErrorDict(error) == [Dict({"success", "error"}) EXCEPT !.error = error]

\* The dictionary detect_stars_from_file answered, as the bridge returns it.
DetectionDict(detection) ==
    [Dict({"success", "message", "stars"}
            \cup IF detection.success THEN {"metadata"} ELSE {})
        EXCEPT !.success = detection.success,
               !.message = detection.message,
               !.stars = detection.stars]

_handle_detect_stars(data, detection) ==
    IF data = <<>> THEN NoneHasNoGet
    ELSE IF data[1].image_path = <<>> \/ data[1].image_path = <<"">>
    THEN Ok(ErrorDict("image_path required"))
    ELSE IF detection = <<>> THEN Ok(ErrorDict("Detection failed"))
    ELSE Ok(DetectionDict(detection[1]))

_handle_calculate_position(data) ==
    IF data = <<>> THEN NoneHasNoGet
    ELSE IF data[1].stars = <<>> \/ data[1].stars = <<<<>>>>
    THEN Ok(ErrorDict("stars data required"))
    ELSE Ok(calculate_position_from_data(data[1].stars))

_handle_calculate_from_names(data, now) ==
    IF data = <<>> THEN NoneHasNoGet
    ELSE IF data[1].observations = <<>> \/ data[1].observations = <<<<>>>>
    THEN Ok(ErrorDict("observations required"))
    ELSE calculate_position_from_star_names(data[1].observations, data[1].time,
                                            data[1].estimated_position, now)

StarInfo(star) ==
    IF star # <<>>
    THEN Ok([Dict({"success", "star"}) EXCEPT !.success = TRUE, !.star = star])
    ELSE Ok(ErrorDict("Star not found"))

_handle_get_star_info(data) ==
    IF data = <<>> THEN NoneHasNoGet
    ELSE IF data[1].name # <<>> /\ data[1].name # <<"">>
    THEN StarInfo(get_star_by_name(data[1].name[1]))
    ELSE IF data[1].arabic_name # <<>> /\ data[1].arabic_name # <<"">>
    THEN StarInfo(get_star_by_arabic_name(data[1].arabic_name[1]))
    ELSE Ok(ErrorDict("name or arabic_name required"))

StarList(stars) ==
    Ok([Dict({"success", "stars", "count"})
            EXCEPT !.success = TRUE, !.stars = stars, !.count = Len(stars)])

_handle_list_stars(data) ==
    IF data = <<>> THEN NoneHasNoGet
    ELSE StarList(get_available_stars(IF data[1].min_magnitude = <<>> THEN 200
                                      ELSE data[1].min_magnitude[1]))

_handle_process_image(data, detection, now) ==
    IF data = <<>> THEN NoneHasNoGet
    ELSE IF data[1].image_path = <<>> \/ data[1].image_path = <<"">>
    THEN Ok(ErrorDict("image_path required"))
    ELSE Ok(process_image(data[1].image_path, data[1].altitudes, data[1].time,
                          data[1].estimated_position, detection, now))

\* A dispatch that sends detect_stars to the handler of process_image, and
\* a name it does not know to the handler of list_stars.
Dispatch_crossed(method, data, detection, now) ==
    IF method \in {<<"detect_stars">>, <<"process_image">>}
    THEN _handle_process_image(data, detection, now)
    ELSE IF method = <<"calculate_position">> THEN _handle_calculate_position(data)
    ELSE IF method = <<"calculate_from_names">> THEN _handle_calculate_from_names(data, now)
    ELSE IF method = <<"get_star_info">> THEN _handle_get_star_info(data)
    ELSE _handle_list_stars(data)

\* The dispatch of handle_request on the method name (None or a string).
Dispatch(method, data, detection, now) ==
    IF method = <<"detect_stars">> THEN _handle_detect_stars(data, detection)
    ELSE IF method = <<"calculate_position">> THEN _handle_calculate_position(data)
    ELSE IF method = <<"calculate_from_names">> THEN _handle_calculate_from_names(data, now)
    ELSE IF method = <<"get_star_info">> THEN _handle_get_star_info(data)
    ELSE IF method = <<"list_stars">> THEN _handle_list_stars(data)
    ELSE IF method = <<"process_image">> THEN _handle_process_image(data, detection, now)
    ELSE Ok(ErrorDict("Unknown method: "
                        \o IF method = <<>> THEN "None" ELSE method[1]))

\* except Exception as e: the error dictionary with str(e) and the traceback.
Caught(response) ==
    IF response.exc # "none"
    THEN [Dict({"success", "error", "traceback"}) EXCEPT !.error = response.msg.text]
    ELSE response.val

\* handle_request: the dictionary returned.  detection and now are what the
\* star detector and the clock answer if they are asked.
handle_request(method, data, detection, now) ==
    Caught(Dispatch(method, data, detection, now))

\* A JSON text is empty, malformed, or the text of a value.
JsonText(value) == [kind |-> "text", value |-> value]

EmptyText == [kind |-> "empty", value |-> <<>>]

MalformedText == [kind |-> "malformed", value |-> <<>>]

json_loads(text) ==
    IF text.kind = "text" THEN Ok(text.value)
    ELSE Raise("JSONDecodeError", Msg("Expecting value"))

json_dumps(value) == JsonText(value)

\* estimated_position = {'lat': estimated_lat, 'lon': estimated_lon} when
\* both are given, None otherwise.
EstimatedPosition(estimated_lat, estimated_lon) ==
    IF estimated_lat # <<>> /\ estimated_lon # <<>>
    THEN <<[lat |-> estimated_lat, lon |-> estimated_lon]>>
    ELSE <<>>

\* The data dictionaries the two functions build.
NamesData(observations, time, estimated_position) ==
    [NoData EXCEPT !.observations = observations, !.time = time,
                   !.estimated_position = estimated_position]

ImageData(image_path, altitudes, time, estimated_position) ==
    [NoData EXCEPT !.image_path = image_path, !.altitudes = altitudes,
                   !.time = time, !.estimated_position = estimated_position]

\* The two functions and handle_json_request each call handle_request once.
\* What one of them does before that call is a record: the exception it
\* raises (exc), or the value it returns without calling (returned), or the
\* call it makes (method, data), with the request id to echo.
Prologue(method, data, id) ==
    [exc |-> "none", msg |-> Msg(""), returned |-> <<>>,
     method |-> method, data |-> data, id |-> id]

RaiseFrom(raised) == [Prologue(<<>>, <<>>, <<>>) EXCEPT !.exc = raised.exc, !.msg = raised.msg]

ReturnEarly(value) == [Prologue(<<>>, <<>>, <<>>) EXCEPT !.returned = <<value>>]

\* calculate_position_simple up to the call: observations is what
\* json.loads answered.
SimpleFromNames(observations, time, estimated_lat, estimated_lon) ==
    IF observations.exc # "none" THEN RaiseFrom(observations)
    ELSE Prologue(<<"calculate_from_names">>,
                  <<NamesData(observations.val, time,
                              EstimatedPosition(estimated_lat, estimated_lon))>>,
                  <<>>)

calculate_position_simple(observations_json, time, estimated_lat, estimated_lon) ==
    SimpleFromNames(json_loads(observations_json), time, estimated_lat, estimated_lon)

\* process_star_image up to the call: altitudes is what json.loads answered,
\* or None.
SimpleFromImage(image_path, altitudes, time, estimated_lat, estimated_lon) ==
    IF altitudes.exc # "none" THEN RaiseFrom(altitudes)
    ELSE Prologue(<<"process_image">>,
                  <<ImageData(image_path, altitudes.val, time,
                              EstimatedPosition(estimated_lat, estimated_lon))>>,
                  <<>>)

\* altitudes = json.loads(altitudes_json) if altitudes_json else None
process_star_image(image_path, altitudes_json, time, estimated_lat, estimated_lon) ==
    SimpleFromImage(image_path,
                    IF altitudes_json.kind = "empty" THEN Ok(<<>>)
                    ELSE json_loads(altitudes_json),
                    time, estimated_lat, estimated_lon)

\* ------------------------------------------------------------------------
\* android_service.py: JSONRPCService
\* ------------------------------------------------------------------------

\* A request value: a JSON object with optional 'method', 'params' and 'id',
\* or a JSON value that is no object.
RpcRequest(method, params, id) ==
    [isobject |-> TRUE, method |-> method, params |-> params, id |-> id]

NotAnObject == [isobject |-> FALSE, method |-> <<>>, params |-> <<>>, id |-> <<>>]

\* A response that does not echo the id of the request.
RpcResult_unechoed(result, id) ==
    [keys |-> {"jsonrpc", "result", "id"}, jsonrpc |-> "2.0",
     result |-> <<result>>, code |-> 0, message |-> "", id |-> <<>>]

RpcResult(result, id) ==
    [keys |-> {"jsonrpc", "result", "id"}, jsonrpc |-> "2.0",
     result |-> <<result>>, code |-> 0, message |-> "", id |-> id]

RpcError(message) ==
    [keys |-> {"jsonrpc", "error", "id"}, jsonrpc |-> "2.0",
     result |-> <<>>, code |-> -32603, message |-> message, id |-> <<>>]

\* handle_json_request up to the call: request is what json.loads answered.
\* An exception is caught and answered with the error response.
RpcFromRequest(request) ==
    IF request.exc # "none" THEN ReturnEarly(json_dumps(RpcError(request.msg.text)))
    ELSE IF ~request.val.isobject
    THEN ReturnEarly(json_dumps(RpcError("'list' object has no attribute 'get'")))
    ELSE Prologue(request.val.method,
                  IF request.val.params = <<>> THEN <<NoData>> ELSE request.val.params,
                  request.val.id)

handle_json_request(json_str) == RpcFromRequest(json_loads(json_str))

\* What the caller of handle_request does with the dictionary it returns.
Epilogue(entry, id, result) ==
    IF entry = "handle_request" THEN result
    ELSE IF entry = "handle_json_request" THEN json_dumps(RpcResult(result, id))
    ELSE json_dumps(result)

\* ------------------------------------------------------------------------
\* State
\* ------------------------------------------------------------------------

VARIABLES
    last_sight,   \* the last Sight(...) call: its arguments and its outcome
    last_solve,   \* the last calculate_circle_intersection call and its outcome
    sights,       \* the list of Sight objects a caller has constructed
    collection,   \* <<>>, or <<c>> for the SightCollection c constructed
    last_coll,    \* the last SightCollection(...) call: argument count, outcome
    fix,          \* <<>>, or <<f>> for the last calculate_position call
    last_request, \* the call of the service or the bridge in progress
    _service_instance,  \* the module's global: None, or the bridge service
    last_angle,   \* the last calculate_gha or calculate_lha call and its result
    frames,       \* for each thread, its call of calculate_position in progress
    last_call     \* the last call of a function of starfix_simple on its own

sight_vars == <<last_sight>>

solver_vars == <<last_solve>>

core_vars == <<sights, collection, last_coll, fix>>

bridge_vars == <<last_request, _service_instance>>

angle_vars == <<last_angle>>

thread_vars == <<frames>>

call_vars == <<last_call>>

vars == <<last_sight, last_solve, sights, collection, last_coll, fix,
          last_request, _service_instance, last_angle, frames, last_call>>

NoCall == [called |-> FALSE]

\* The threads of a caller, and a thread that is in no call.
Threads == {"a", "b"}

Idle == [pc |-> "idle"]

Init ==
    /\ last_sight = NoCall
    /\ last_solve = NoCall
    /\ sights = <<>>
    /\ collection = <<>>
    /\ last_coll = NoCall
    /\ fix = <<>>
    /\ last_request = NoCall
    /\ _service_instance = <<>>
    /\ last_angle = NoCall
    /\ frames = [thread \in Threads |-> Idle]
    /\ last_call = NoCall

\* 2024-05-05T22:00:00, and a string datetime.fromisoformat rejects.
ObsTime == [ok |-> TRUE, day |-> 8891, hour |-> 22]

BadTime == [ok |-> FALSE, day |-> 0, hour |-> 0]

\* The record of a Sight(...) call.
SightCallWith(ra, dec, altitude, time, observer_height, temperature, pressure, apply_refraction, apply_dip) ==
    LET made == Sight_init(ra, dec, altitude, time, observer_height,
                           temperature, pressure, apply_refraction, apply_dip)
    IN  [called |-> TRUE, ra |-> ra, dec |-> dec, altitude |-> altitude,
         time |-> time, observer_height |-> observer_height,
         temperature |-> temperature, pressure |-> pressure,
         apply_refraction |-> apply_refraction, apply_dip |-> apply_dip,
         exc |-> made.exc, msg |-> made.msg, steps |-> made.steps,
         made |-> IF made.exc = "none" THEN <<made.val>> ELSE <<>>]

\* Sight(ra, dec, altitude, time, observer_height): the other arguments keep
\* their defaults.
SightCall(ra, dec, altitude, time, observer_height) ==
    SightCallWith(ra, dec, altitude, time, observer_height,
                  DefaultTemperature, DefaultPressure, TRUE, TRUE)

\* ------------------------------------------------------------------------
\* Sight construction on its own
\* ------------------------------------------------------------------------

\* Arguments of Sight(...), in centidegrees and metres.  Right ascension
\* 164.26 puts the GP on the Greenwich meridian at ObsTime, 74.26 puts it
\* 90 degrees west.
RaInputs == {16426, 7426}

\* Right ascensions outside [0, 360) and one that puts the GP opposite
\* Greenwich at ObsTime (GHA 180): -15.74, 344.26 and 524.26 degrees.
FarRaInputs == {-1574, 34426, 52426}

DecInputs == {-9500, -9000, 0, 9000, 9500}

AltitudeInputs == {-100, 0, 1, 4020, 5550, 8999, 9000, 9500}

TimeInputs == {ObsTime, BadTime}

HeightInputs == {0, 10}

\* Sight(ra, dec, altitude, time, observer_height)
ConstructSight(ra, dec, altitude, time, observer_height) ==
    /\ last_sight' = SightCall(ra, dec, altitude, time, observer_height)
    /\ UNCHANGED <<solver_vars, core_vars, bridge_vars, angle_vars, thread_vars, call_vars>>

\* Altitudes, heights (in metres, one below sea level), temperatures (30.0 C)
\* and pressures for the sights constructed with every argument given.
CorrectedAltitudeInputs == {1, 4020, 8999}

CorrectedHeightInputs == {-5, 0, 10}

TemperatureInputs == {DefaultTemperature, 300}

PressureInputs == {DefaultPressure, 90}

\* Sight(ra, dec, altitude, time, observer_height, temperature, pressure,
\*       apply_refraction, apply_dip)
ConstructSightWith(altitude, observer_height, temperature, pressure, apply_refraction, apply_dip) ==
    /\ last_sight' = SightCallWith(16426, 0, altitude, ObsTime, observer_height,
                                   temperature, pressure, apply_refraction, apply_dip)
    /\ UNCHANGED <<solver_vars, core_vars, bridge_vars, angle_vars, thread_vars, call_vars>>

SightNext ==
    \/ \E ra \in RaInputs \cup FarRaInputs, dec \in DecInputs, altitude \in AltitudeInputs,
          time \in TimeInputs, observer_height \in HeightInputs :
            ConstructSight(ra, dec, altitude, time, observer_height)
    \/ \E altitude \in CorrectedAltitudeInputs, observer_height \in CorrectedHeightInputs,
          temperature \in TemperatureInputs, pressure \in PressureInputs,
          apply_refraction \in BOOLEAN, apply_dip \in BOOLEAN :
            ConstructSightWith(altitude, observer_height, temperature, pressure,
                               apply_refraction, apply_dip)

SightSpec == Init /\ [][SightNext]_vars

\* ------------------------------------------------------------------------
\* The intersection solver on its own
\* ------------------------------------------------------------------------

\* Geographic positions: three on the equator, 0, 90 and 150 degrees apart,
\* and one off it.
GpInputs == {LatLon(0, 0), LatLon(0, -9000), LatLon(0, 15000), LatLon(-1672, -6297)}

\* Distances from a GP, in units of 10 m: 0, and the arcs of 30, 50 and 90
\* degrees.
DistInputs == {0, ArcToDist(30 * Deg), ArcToDist(50 * Deg), ArcToDist(90 * Deg)}

\* calculate_circle_intersection(gp1, dist1, gp2, dist2)
SolveCircles(gp1, dist1, gp2, dist2) ==
    /\ last_solve' = [called |-> TRUE, gp1 |-> gp1, dist1 |-> dist1,
                      gp2 |-> gp2, dist2 |-> dist2,
                      result |-> calculate_circle_intersection(gp1, dist1, gp2, dist2)]
    /\ UNCHANGED <<sight_vars, core_vars, bridge_vars, angle_vars, thread_vars, call_vars>>

SolverNext ==
    \E gp1 \in GpInputs, gp2 \in GpInputs, dist1 \in DistInputs, dist2 \in DistInputs :
        SolveCircles(gp1, dist1, gp2, dist2)

SolverSpec == Init /\ [][SolverNext]_vars

\* ------------------------------------------------------------------------
\* The hour angles: a caller computes a GHA or an LHA.
\* ------------------------------------------------------------------------

\* Whether x steps is a float.
IsFloat(x) == RoundFloat(x) = x

\* 1990-01-01T00:00:00, before the epoch, and 2024-01-01T08:00:00.
BeforeEpoch == [day |-> -3652, hour |-> 0]

NewYear == [day |-> 8766, hour |-> 8]

AngleTimeInputs == {BeforeEpoch, NewYear, [day |-> ObsTime.day, hour |-> ObsTime.hour]}

\* Right ascensions in steps: negative, in range, of 360 degrees and more,
\* and the floats next to the sidereal time of the observation.
AngleRaInputs(observation_time) ==
    {ra \in {Fine * r : r \in {-3 * 360 * Deg - 1574, -3000, 0, 11926, 360 * Deg, 72500}}
             \cup {Fine * gmst(observation_time) + d : d \in {-Fine, -1, 0, 1, Fine}} :
        IsFloat(ra)}

\* Hour angles in [0, 360) and longitudes in [-180, 180], in steps.
GhaInputs ==
    {0, 1, 2, Fine * 90 * Deg, Fine * 180 * Deg, Fine * 270 * Deg, Fine * (360 * Deg - 1)}

LonInputs ==
    {-Fine * 180 * Deg, -Fine * 90 * Deg, -Fine * 45 * Deg, -Fine, -2, -1, 0, 1,
     Fine * 45 * Deg, Fine * 90 * Deg, Fine * 180 * Deg}

\* calculate_gha(ra, observation_time)
CallGha(ra, observation_time) ==
    /\ last_angle' = [called |-> TRUE, op |-> "calculate_gha",
                      ra |-> ra, time |-> observation_time,
                      result |-> calculate_gha(ra, observation_time)]
    /\ UNCHANGED <<sight_vars, solver_vars, core_vars, bridge_vars, thread_vars, call_vars>>

\* calculate_lha(gha, observer_lon)
CallLha(gha, observer_lon) ==
    /\ last_angle' = [called |-> TRUE, op |-> "calculate_lha",
                      gha |-> gha, observer_lon |-> observer_lon,
                      result |-> calculate_lha(gha, observer_lon)]
    /\ UNCHANGED <<sight_vars, solver_vars, core_vars, bridge_vars, thread_vars, call_vars>>

AngleNext ==
    \/ \E observation_time \in AngleTimeInputs :
         \E ra \in AngleRaInputs(observation_time) : CallGha(ra, observation_time)
    \/ \E gha \in GhaInputs, observer_lon \in LonInputs : CallLha(gha, observer_lon)

AngleSpec == Init /\ [][AngleNext]_vars

\* ------------------------------------------------------------------------
\* The vector functions: a caller converts or normalises a vector, or
\* averages the chosen positions of a fix.
\* ------------------------------------------------------------------------

\* Components of a vector: 0, the smallest non-zero ones, 1 and -1.
ComponentInputs == {-Unit, -1, 0, 1, Unit}

VecInputs == [1..3 -> ComponentInputs]

\* Lists of chosen positions: two, with antipodal ones, and three, with
\* three a third of a turn apart.
PositionsInputs ==
    {<<LatLon(0, 0), LatLon(0, 180 * Deg)>>,
     <<LatLon(0, 0), LatLon(0, 90 * Deg)>>,
     <<LatLon(90 * Deg, 0), LatLon(-90 * Deg, 0)>>,
     <<LatLon(0, 0), LatLon(0, 120 * Deg), LatLon(0, -120 * Deg)>>,
     <<LatLon(3295, -9000), LatLon(-3295, -9000), LatLon(0, 90 * Deg)>>}

\* to_latlon(vec)
CallToLatlon(vec) ==
    /\ last_call' = [called |-> TRUE, op |-> "to_latlon", vec |-> vec,
                       result |-> to_latlon(vec)]
    /\ UNCHANGED <<sight_vars, solver_vars, core_vars, bridge_vars, angle_vars, thread_vars>>

\* normalize_vect(vec)
CallNormalizeVect(vec) ==
    /\ last_call' = [called |-> TRUE, op |-> "normalize_vect", vec |-> vec,
                       result |-> normalize_vect(vec)]
    /\ UNCHANGED <<sight_vars, solver_vars, core_vars, bridge_vars, angle_vars, thread_vars>>

\* The end of _calculate_multi_sight_fix, on the positions chosen.
CallAverage(positions) ==
    /\ last_call' = [called |-> TRUE, op |-> "average", positions |-> positions,
                       result |-> AveragePosition(positions)]
    /\ UNCHANGED <<sight_vars, solver_vars, core_vars, bridge_vars, angle_vars, thread_vars>>

VectorNext ==
    \/ \E vec \in VecInputs : CallToLatlon(vec)
    \/ \E vec \in VecInputs : CallNormalizeVect(vec)
    \/ \E positions \in PositionsInputs : CallAverage(positions)

VectorSpec == Init /\ [][VectorNext]_vars

\* ------------------------------------------------------------------------
\* The atmospheric corrections: a caller computes a refraction, or the dip
\* at two heights.
\* ------------------------------------------------------------------------

\* Altitudes in centidegrees, below, at and above the horizon and the
\* zenith; temperatures in tenths of a degree Celsius; pressures in kPa.
RefractionAltitudeInputs == {-9000, -100, -1, 0, 1, 4500, 8999, 9000, 9001, 18000}

RefractionTemperatureInputs == {-300, DefaultTemperature, 450}

RefractionPressureInputs == {0, 90, DefaultPressure}

\* Heights in metres.
DipHeightInputs == {-5, -1, 0, 1, 2, 3, 4, 5, 6, 10, 100}

\* atmospheric_refraction(altitude_deg, temperature, pressure)
CallRefraction(altitude_deg, temperature, pressure) ==
    /\ last_call' = [called |-> TRUE, op |-> "atmospheric_refraction",
                     altitude_deg |-> altitude_deg, temperature |-> temperature,
                     pressure |-> pressure,
                     result |-> atmospheric_refraction(altitude_deg, temperature, pressure)]
    /\ UNCHANGED <<sight_vars, solver_vars, core_vars, bridge_vars, angle_vars, thread_vars>>

\* horizon_dip(h1) and horizon_dip(h2)
CallDip(h1, h2) ==
    /\ last_call' = [called |-> TRUE, op |-> "horizon_dip", h1 |-> h1, h2 |-> h2,
                     dip1 |-> horizon_dip(h1), dip2 |-> horizon_dip(h2)]
    /\ UNCHANGED <<sight_vars, solver_vars, core_vars, bridge_vars, angle_vars, thread_vars>>

CorrectionNext ==
    \/ \E altitude_deg \in RefractionAltitudeInputs,
          temperature \in RefractionTemperatureInputs,
          pressure \in RefractionPressureInputs :
            CallRefraction(altitude_deg, temperature, pressure)
    \/ \E h1 \in DipHeightInputs, h2 \in DipHeightInputs : CallDip(h1, h2)

CorrectionSpec == Init /\ [][CorrectionNext]_vars

\* ------------------------------------------------------------------------
\* routing_integration.py: NavigationMaskHandler and RoutePlanner.
\* Longitudes and latitudes are in tenths of a grid cell; the bounding box
\* has its south-west corner at (0, 0).
\* ------------------------------------------------------------------------

\* self.resolution: the side of a cell.
Resolution == 10

\* The handler of a mask file: the box, the grid that
\* int((max - min) / resolution) gives for it, and the cells that are land
\* (mask value 0); every other cell is water (mask value 1).
NavigationMaskHandler(max_lon, max_lat, land) ==
    [bbox |-> <<0, 0, max_lon, max_lat>>, resolution |-> Resolution,
     width |-> max_lon \div Resolution, height |-> max_lat \div Resolution,
     land |-> land]

\* self.mask[row, col]
MaskAt(self, row, col) == IF <<row, col>> \in self.land THEN 0 ELSE 1

\* The cells of the grid, as <<row, col>>.
Cells(self) == (0..(self.height - 1)) \X (0..(self.width - 1))

\* max(0, min(index, size - 1))
ClampIndex(index, size) == Max2(0, Min2(index, size - 1))

\* latlon_to_grid: int(x_norm * width) and int(y_norm * height), clamped;
\* a negative product is clamped to 0 whichever way it is truncated.
latlon_to_grid(self, lon, lat) ==
    <<ClampIndex(((self.bbox[4] - lat) * self.height) \div (self.bbox[4] - self.bbox[2]),
                 self.height),
      ClampIndex(((lon - self.bbox[1]) * self.width) \div (self.bbox[3] - self.bbox[1]),
                 self.width)>>

\* grid_to_latlon: the centre of a cell, as <<lon, lat>>.
grid_to_latlon(self, row, col) ==
    <<self.bbox[1] + col * self.resolution + self.resolution \div 2,
      self.bbox[4] - (row * self.resolution + self.resolution \div 2)>>

is_navigable(self, lon, lat) ==
    LET cell == latlon_to_grid(self, lon, lat)
    IN  MaskAt(self, cell[1], cell[2]) = 1

\* max_search_radius
MaxSearchRadius == 50

\* The rings of the spiral search that have a cell inside the grid.
Radii(self) == 1..Min2(MaxSearchRadius - 1, Max2(self.height, self.width))

\* The steps <<radius, dr, dc>> of the spiral search from a cell that come
\* upon a water cell of the grid.
WaterSteps(self, cell) ==
    {step \in UNION {{<<radius, dr, dc>> : dr \in -radius..radius, dc \in -radius..radius} :
                        radius \in Radii(self)} :
        /\ Abs(step[2]) = step[1] \/ Abs(step[3]) = step[1]
        /\ <<cell[1] + step[2], cell[2] + step[3]>> \in Cells(self)
        /\ MaskAt(self, cell[1] + step[2], cell[2] + step[3]) = 1}

\* (a1, a2, a3) < (b1, b2, b3) for Python tuples.
TupleBefore(a, b) ==
    \/ a[1] < b[1]
    \/ a[1] = b[1] /\ a[2] < b[2]
    \/ a[1] = b[1] /\ a[2] = b[2] /\ a[3] < b[3]

\* The least of a non-empty set of triples.
First(triples) ==
    CHOOSE a \in triples : \A b \in triples : a = b \/ TupleBefore(a, b)

\* The water cell the spiral search of find_nearest_water comes upon first
\* from a land cell; <<>> when it comes upon none.
NearestWaterCell(self, cell) ==
    IF WaterSteps(self, cell) = {} THEN <<>>
    ELSE LET step == First(WaterSteps(self, cell))
         IN  <<<<cell[1] + step[2], cell[2] + step[3]>>>>

\* find_nearest_water: the point itself when it is in water, the centre of
\* the nearest water cell otherwise, or None.
find_nearest_water(self, lon, lat) ==
    IF is_navigable(self, lon, lat) THEN <<<<lon, lat>>>>
    ELSE LET found == NearestWaterCell(self, latlon_to_grid(self, lon, lat))
         IN  IF found = <<>> THEN <<>>
             ELSE <<grid_to_latlon(self, found[1][1], found[1][2])>>

\* The point plan_route goes on with for a start or an end: the point, or
\* the nearest water found for it when it is on land, or None.
Resolve(self, point) ==
    IF is_navigable(self, point[1], point[2]) THEN <<point>>
    ELSE find_nearest_water(self, point[1], point[2])

\* directions, with only the four straight ones.
directions_straight == {<<-1, 0>>, <<1, 0>>, <<0, -1>>, <<0, 1>>}

directions ==
    {<<-1, 0>>, <<1, 0>>, <<0, -1>>, <<0, 1>>,
     <<-1, -1>>, <<-1, 1>>, <<1, -1>>, <<1, 1>>}

\* np.sqrt of a whole number below 64, in tenths.
np_sqrt(n) ==
    CHOOSE r \in 0..80 : r * r <= n * 100 /\ (r + 1) * (r + 1) > n * 100

\* np.sqrt((r1 - r2)**2 + (c1 - c2)**2)
heuristic(r1, c1, r2, c2) == np_sqrt((r1 - r2) * (r1 - r2) + (c1 - c2) * (c1 - c2))

\* float('inf')
Inf == 1000 * Unit

\* A dictionary is the set of its items <<key, value>>.
Has(dict, key) == \E item \in dict : item[1] = key

Get(dict, key) == (CHOOSE item \in dict : item[1] = key)[2]

\* dict[key] = value, for every <<key, value>> of a set.
Put(dict, items) ==
    {item \in dict : \A new \in items : new[1] # item[1]} \cup items

\* g_score.get(cell, float('inf'))
Score(g_score, cell) == IF Has(g_score, cell) THEN Get(g_score, cell) ELSE Inf

\* The planner inside `while open_set:`.
Search(self, start_cell, end_cell, open_set, came_from, g_score) ==
    [self |-> self, start_cell |-> start_cell, end_cell |-> end_cell,
     open_set |-> open_set, came_from |-> came_from, g_score |-> g_score]

\* open_set, came_from and g_score before the loop.
BeginSearch(self, start_cell, end_cell) ==
    Search(self, start_cell, end_cell, {<<0, start_cell[1], start_cell[2]>>},
           {}, {<<start_cell, 0>>})

\* move_cost = np.sqrt(dr**2 + dc**2)
move_cost(dr, dc) == np_sqrt(dr * dr + dc * dc)

\* tentative_g for a neighbour of the current cell.
Tentative(search, current, cell) ==
    Score(search.g_score, current)
        + move_cost(cell[1] - current[1], cell[2] - current[2])

\* The neighbours of a cell that are inside the grid and water, and whose
\* score the way through the cell lowers.
Improved(search, current) ==
    {cell \in Cells(search.self) :
        /\ <<cell[1] - current[1], cell[2] - current[2]>> \in directions
        /\ MaskAt(search.self, cell[1], cell[2]) = 1
        /\ Tentative(search, current, cell) < Score(search.g_score, cell)}

\* One turn of the loop for a cell that is not the end: the cell is popped
\* and its neighbours are relaxed.
Relax(search, popped) ==
    LET current == <<popped[2], popped[3]>>
        better == Improved(search, current)
    IN  [search EXCEPT
            !.open_set =
                (@ \ {popped})
                \cup {<<Tentative(search, current, cell)
                          + heuristic(cell[1], cell[2],
                                      search.end_cell[1], search.end_cell[2]),
                        cell[1], cell[2]>> : cell \in better},
            !.came_from = Put(@, {<<cell, current>> : cell \in better}),
            !.g_score = Put(@, {<<cell, Tentative(search, current, cell)>> :
                                    cell \in better})]

\* The path reconstructed from came_from, already reversed: the centre of
\* the start cell, then the centres of the cells up to current.
RECURSIVE Waypoints(_, _)
Waypoints(search, current) ==
    IF ~Has(search.came_from, current)
    THEN <<grid_to_latlon(search.self, search.start_cell[1], search.start_cell[2])>>
    ELSE Append(Waypoints(search, Get(search.came_from, current)),
                grid_to_latlon(search.self, current[1], current[2]))

\* Masks: a box four cells wide and three high, and a box of the same grid
\* that is nine tenths of a cell higher.
BoxInputs == {<<40, 30>>, <<40, 39>>}

\* The land of a mask: none; a wall from north to south; two cells that
\* leave a diagonal passage from the north-west corner; the two northern
\* rows; an island; everything.
LandInputs ==
    {{},
     {<<0, 1>>, <<1, 1>>, <<2, 1>>},
     {<<0, 1>>, <<1, 0>>},
     (0..1) \X (0..3),
     {<<1, 1>>, <<1, 2>>},
     (0..2) \X (0..3)}

\* Points <<lon, lat>>, one of them outside the box.
PointInputs ==
    {<<5, 5>>, <<35, 5>>, <<15, 15>>, <<5, 25>>, <<35, 25>>, <<25, 14>>, <<-10, 50>>}

\* A call of plan_route: "searching" while the loop runs, "returned" with
\* the route (None is <<>>) once it has returned.
Planning(stage, self, start, end, search, route) ==
    [called |-> TRUE, stage |-> stage, self |-> self, start |-> start,
     end |-> end, search |-> search, route |-> route]

NoSearch == <<>>

\* planner.plan_route(start, end), up to the loop: the start and the end
\* are resolved, and None is returned when one of them cannot be.
CallPlanRoute(self, start, end) ==
    /\ ~last_call.called
    /\ last_call' =
        IF Resolve(self, start) = <<>> \/ Resolve(self, end) = <<>>
        THEN Planning("returned", self, start, end, NoSearch, <<>>)
        ELSE Planning("searching", self, start, end,
                      <<BeginSearch(self,
                                    latlon_to_grid(self, Resolve(self, start)[1][1],
                                                   Resolve(self, start)[1][2]),
                                    latlon_to_grid(self, Resolve(self, end)[1][1],
                                                   Resolve(self, end)[1][2]))>>,
                      <<>>)
    /\ UNCHANGED <<sight_vars, solver_vars, core_vars, bridge_vars, angle_vars, thread_vars>>

\* One turn of `while open_set:`: the loop ends with None when open_set is
\* empty; the least entry is popped otherwise, and the path is returned
\* when it is the end cell.
Turn(call, search) ==
    IF search.open_set = {}
    THEN [call EXCEPT !.stage = "returned", !.route = <<>>]
    ELSE LET popped == First(search.open_set)
         IN  IF <<popped[2], popped[3]>> = search.end_cell
             THEN [call EXCEPT
                    !.stage = "returned",
                    !.search = <<[search EXCEPT !.open_set = @ \ {popped}]>>,
                    !.route = <<Waypoints(search, search.end_cell)>>]
             ELSE [call EXCEPT !.search = <<Relax(search, popped)>>]

Iterate ==
    /\ last_call.called
    /\ last_call.stage = "searching"
    /\ \E next \in {Turn(last_call, last_call.search[1])} : last_call' = next
    /\ UNCHANGED <<sight_vars, solver_vars, core_vars, bridge_vars, angle_vars, thread_vars>>

\* The caller takes the route.
TakeRoute ==
    /\ last_call.called
    /\ last_call.stage = "returned"
    /\ last_call' = NoCall
    /\ UNCHANGED <<sight_vars, solver_vars, core_vars, bridge_vars, angle_vars, thread_vars>>

RouteNext ==
    \/ \E box \in BoxInputs, land \in LandInputs, start \in PointInputs,
          end \in PointInputs :
            CallPlanRoute(NavigationMaskHandler(box[1], box[2], land), start, end)
    \/ Iterate
    \/ TakeRoute

RouteSpec == Init /\ [][RouteNext]_vars

\* The loop is not suspended for ever: plan_route runs in its caller's
\* thread.
RouteFairSpec == Init /\ [][RouteNext]_vars /\ WF_last_call(Iterate)

\* ------------------------------------------------------------------------
\* The position fix: a caller constructs sights, builds a SightCollection
\* from them and computes a fix.
\* ------------------------------------------------------------------------

\* Most sights a caller constructs for one collection.
MaxSights == 3

FixDecInputs == {0, 9500}

FixAltitudeInputs == {0, 4020, 5550}

\* Estimated positions: None, one north and one south of the equator, and
\* one on the equator, at the same distance from the two candidates of two
\* equatorial GPs.
NoEstimate == <<>>

EstimateInputs ==
    {NoEstimate, <<LatLon(2500, 5000)>>, <<LatLon(-6000, -2800)>>, <<LatLon(0, 3000)>>}

\* sight = Sight(ra, dec, altitude, time), appended to the caller's list when
\* the constructor returns.
NewSight(ra, dec, altitude, time) ==
    LET call == SightCall(ra, dec, altitude, time, 0)
    IN  /\ collection = <<>>
        /\ Len(sights) < MaxSights
        /\ last_sight' = call
        /\ sights' = IF call.exc = "none" THEN Append(sights, call.made[1]) ELSE sights
        /\ UNCHANGED <<solver_vars, collection, last_coll, fix, bridge_vars, angle_vars, thread_vars, call_vars>>

\* collection = SightCollection(sights)
NewCollection ==
    LET made == SightCollection_init(sights)
    IN  /\ collection = <<>>
        /\ last_coll' = [called |-> TRUE, count |-> Len(sights),
                         exc |-> made.exc, msg |-> made.msg]
        /\ collection' = IF made.exc = "none" THEN <<made.val>> ELSE <<>>
        /\ UNCHANGED <<sight_vars, solver_vars, sights, fix, bridge_vars, angle_vars, thread_vars, call_vars>>

\* collection.calculate_position(estimated_position), once for a collection.
CalculatePosition(estimated_position) ==
    /\ collection # <<>>
    /\ fix = <<>>
    /\ fix' = <<[estimated_position |-> estimated_position,
                 before |-> collection[1].sights,
                 result |-> calculate_position(collection[1], estimated_position)]>>
    /\ UNCHANGED <<sight_vars, solver_vars, sights, collection, last_coll, bridge_vars, angle_vars, thread_vars, call_vars>>

\* The caller starts over with an empty list.
StartOver ==
    /\ sights # <<>> \/ last_sight.called \/ last_coll.called
    /\ last_sight' = NoCall
    /\ sights' = <<>>
    /\ collection' = <<>>
    /\ last_coll' = NoCall
    /\ fix' = <<>>
    /\ UNCHANGED <<solver_vars, bridge_vars, angle_vars, thread_vars, call_vars>>

\* A third body on the equator, between the two of RaInputs: its GP is 45
\* degrees from each of theirs.
MidRaInputs == {11926}

Next ==
    \/ \E ra \in RaInputs, dec \in FixDecInputs, altitude \in FixAltitudeInputs :
            NewSight(ra, dec, altitude, ObsTime)
    \/ \E ra \in MidRaInputs : NewSight(ra, 0, 4020, ObsTime)
    \/ NewCollection
    \/ \E estimated_position \in EstimateInputs :
            CalculatePosition(estimated_position)
    \/ StartOver

Spec == Init /\ [][Next]_vars

\* ------------------------------------------------------------------------
\* Concurrent fixes: each thread has a SightCollection of its own and calls
\* calculate_position on it, twice with the same arguments; the threads run
\* in any interleaving, one pair of the loop at a time.
\* ------------------------------------------------------------------------

\* 2024-05-05T21:00:00 and 2024-05-05T23:00:00.
HourBefore == [ok |-> TRUE, day |-> 8891, hour |-> 21]

HourAfter == [ok |-> TRUE, day |-> 8891, hour |-> 23]

\* Sight(ra, 0, altitude, time), for arguments the constructor accepts.
SightOf(ra, altitude, time) ==
    Sight_init(ra, 0, altitude, time, 0, DefaultTemperature, DefaultPressure, TRUE, TRUE).val

\* Lists of sights: two whose circles meet, two whose circles do not,
\* three, in two orders, and three taken an hour apart, the circle of the
\* last one meeting neither of the others.
SightsInputs ==
    {<<SightOf(16426, 4020, ObsTime), SightOf(7426, 4020, ObsTime)>>,
     <<SightOf(16426, 5550, ObsTime), SightOf(7426, 5550, ObsTime)>>,
     <<SightOf(16426, 4020, ObsTime), SightOf(7426, 4020, ObsTime),
       SightOf(11926, 4020, ObsTime)>>,
     <<SightOf(11926, 4020, ObsTime), SightOf(7426, 5550, ObsTime),
       SightOf(16426, 4020, ObsTime)>>,
     <<SightOf(16426, 4020, HourAfter), SightOf(7426, 4020, ObsTime),
       SightOf(11926, 8999, HourBefore)>>}

ThreadEstimateInputs == {NoEstimate, <<LatLon(-6000, -2800)>>}

\* The frame of a call collection.calculate_position(estimated_position):
\* self, the argument, the pairs visited so far, the result once returned,
\* the result of the call before it on the same arguments, and the list of
\* sights as it was when the call began.
Frame(self, estimated_position, previous) ==
    [pc |-> "loop", self |-> self, estimated_position |-> estimated_position,
     pairs |-> <<>>, result |-> <<>>, previous |-> previous,
     given |-> self.sights]

\* Whether the loop over the pairs has ended: every pair visited, or an
\* exception raised in the last one.
LoopOver(frame) ==
    \/ Len(frame.pairs) = Len(PairSeq(Len(frame.self.sights), 1, 2))
    \/ frame.pairs # <<>> /\ frame.pairs[Len(frame.pairs)].fix.kind = "error"

\* A visit that leaves the two sights of the pair exchanged in self.sights.
VisitPair_exchanging(frame) ==
    LET todo == PairSeq(Len(frame.self.sights), 1, 2)
        i == todo[Len(frame.pairs) + 1][1]
        j == todo[Len(frame.pairs) + 1][2]
        sight1 == frame.self.sights[i]
        sight2 == frame.self.sights[j]
    IN  [frame EXCEPT !.pairs = Append(@, [i |-> i, j |-> j,
                                           fix |-> PairFix(sight1, sight2,
                                                           frame.estimated_position)]),
                      !.self.sights = [@ EXCEPT ![i] = sight2, ![j] = sight1]]

\* One pass of the loop body: the next pair (i, j) of self.sights.
VisitPair(frame) ==
    LET todo == PairSeq(Len(frame.self.sights), 1, 2)
        i == todo[Len(frame.pairs) + 1][1]
        j == todo[Len(frame.pairs) + 1][2]
        sight1 == frame.self.sights[i]
        sight2 == frame.self.sights[j]
    IN  [frame EXCEPT !.pairs = Append(@, [i |-> i, j |-> j,
                                           fix |-> PairFix(sight1, sight2,
                                                           frame.estimated_position)])]

\* After the loop: the position of the fix, and the dictionary returned.
ReturnPosition(frame) ==
    [frame EXCEPT !.pc = "done",
                  !.result = <<PositionDict(frame.self,
                                 IF Len(frame.self.sights) = 2
                                 THEN TwoSightResult(frame.pairs[1].fix)
                                 ELSE MultiSightPairs(frame.pairs))>>]

\* collection = SightCollection(sights); the thread calls
\* collection.calculate_position(estimated_position).
BeginCall(thread, given, estimated_position) ==
    /\ frames[thread].pc = "idle"
    /\ frames' = [frames EXCEPT ![thread] =
                    Frame(SightCollection_init(given).val, estimated_position, <<>>)]
    /\ UNCHANGED <<sight_vars, solver_vars, core_vars, bridge_vars, angle_vars, call_vars>>

Visit(thread) ==
    /\ frames[thread].pc = "loop"
    /\ ~LoopOver(frames[thread])
    /\ frames' = [frames EXCEPT ![thread] = VisitPair(@)]
    /\ UNCHANGED <<sight_vars, solver_vars, core_vars, bridge_vars, angle_vars, call_vars>>

EndCall(thread) ==
    /\ frames[thread].pc = "loop"
    /\ LoopOver(frames[thread])
    /\ frames' = [frames EXCEPT ![thread] = ReturnPosition(@)]
    /\ UNCHANGED <<sight_vars, solver_vars, core_vars, bridge_vars, angle_vars, call_vars>>

\* The thread calls calculate_position again, on the same collection and
\* with the same argument.
CallAgain(thread) ==
    /\ frames[thread].pc = "done"
    /\ frames[thread].previous = <<>>
    /\ frames' = [frames EXCEPT ![thread] =
                    Frame(@.self, @.estimated_position, @.result)]
    /\ UNCHANGED <<sight_vars, solver_vars, core_vars, bridge_vars, angle_vars, call_vars>>

\* The thread drops its collection.
Release(thread) ==
    /\ frames[thread].pc = "done"
    /\ frames' = [frames EXCEPT ![thread] = Idle]
    /\ UNCHANGED <<sight_vars, solver_vars, core_vars, bridge_vars, angle_vars, call_vars>>

ThreadNext ==
    \E thread \in Threads :
        \/ \E given \in SightsInputs, estimated_position \in ThreadEstimateInputs :
                BeginCall(thread, given, estimated_position)
        \/ Visit(thread)
        \/ EndCall(thread)
        \/ CallAgain(thread)
        \/ Release(thread)

ThreadSpec == Init /\ [][ThreadNext]_vars

\* ------------------------------------------------------------------------
\* android_service.py: get_service_instance, called from several threads.
\* A thread can be suspended between any two of its steps: the test of the
\* global, the construction, the assignment, the read for the return.
\* ------------------------------------------------------------------------

\* The most calls one thread makes.
MaxCalls == 2

\* A thread in get_service_instance or between two calls of it: where it
\* is, the instances it has constructed, the instances it was returned.
Caller(pc, made, received) == [pc |-> pc, made |-> made, received |-> received]

CallerOf(thread) ==
    IF frames[thread] = Idle THEN Caller("idle", <<>>, <<>>) ELSE frames[thread]

\* AndroidBridgeService(): a new object, told from every other by the
\* thread that made it and its rank among those the thread made.
AndroidBridgeService(thread, rank) == [by |-> thread, rank |-> rank]

\* if _service_instance is None:
TestInstance(thread) ==
    /\ CallerOf(thread).pc = "idle"
    /\ Len(CallerOf(thread).received) < MaxCalls
    /\ frames' = [frames EXCEPT ![thread] =
                    [CallerOf(thread) EXCEPT
                        !.pc = IF _service_instance = <<>> THEN "construct"
                               ELSE "return"]]
    /\ UNCHANGED <<sight_vars, solver_vars, core_vars, bridge_vars, angle_vars, call_vars>>

\* AndroidBridgeService()
ConstructInstance(thread) ==
    /\ CallerOf(thread).pc = "construct"
    /\ frames' = [frames EXCEPT ![thread] =
                    [@ EXCEPT !.pc = "assign",
                              !.made = Append(@, AndroidBridgeService(thread, Len(@) + 1))]]
    /\ UNCHANGED <<sight_vars, solver_vars, core_vars, bridge_vars, angle_vars, call_vars>>

\* _service_instance = ...
AssignInstance(thread) ==
    /\ CallerOf(thread).pc = "assign"
    /\ _service_instance' = <<frames[thread].made[Len(frames[thread].made)]>>
    /\ frames' = [frames EXCEPT ![thread] = [@ EXCEPT !.pc = "return"]]
    /\ UNCHANGED <<sight_vars, solver_vars, core_vars, last_request, angle_vars, call_vars>>

\* return _service_instance
ReturnInstance(thread) ==
    /\ CallerOf(thread).pc = "return"
    /\ frames' = [frames EXCEPT ![thread] =
                    [@ EXCEPT !.pc = "idle",
                              !.received = Append(@, _service_instance[1])]]
    /\ UNCHANGED <<sight_vars, solver_vars, core_vars, bridge_vars, angle_vars, call_vars>>

InstanceNext ==
    \E thread \in Threads :
        \/ TestInstance(thread)
        \/ ConstructInstance(thread)
        \/ AssignInstance(thread)
        \/ ReturnInstance(thread)

InstanceSpec == Init /\ [][InstanceNext]_vars

\* ------------------------------------------------------------------------
\* The service and the bridge: a caller makes one call at a time and takes
\* its result.
\* ------------------------------------------------------------------------

\* Longest list of observations, or of star data, in a request.
MaxObs == 3

\* All the sequences over S of length at most n.
SeqsUpTo(S, n) == UNION {[1..k -> S] : k \in 0..n}

ObservationInputs ==
    {Observation(<<"Sirius">>, <<5550>>),
     Observation(<<"Canopus">>, <<4020>>),
     Observation(<<"Nowhere">>, <<5550>>),
     Observation(<<"Venus">>, <<4020>>),
     Observation(<<"polaris">>, <<8000>>),
     NotAnObservation}

\* None, or a list of observations.
ObservationsInputs == {<<>>} \cup {<<list>> : list \in SeqsUpTo(ObservationInputs, MaxObs)}

StarDataInputs ==
    {StarData(<<"Sirius">>, <<10129>>, <<-1672>>, <<5550>>, <<ObsTime>>),
     StarData(<<>>, <<9599>>, <<-5270>>, <<4020>>, <<ObsTime>>),
     StarData(<<"Polaris">>, <<3795>>, <<8926>>, <<8000>>, <<ObsTime>>),
     StarData(<<"Vega">>, <<27923>>, <<9500>>, <<4020>>, <<ObsTime>>),
     StarData(<<"Canopus">>, <<9599>>, <<-5270>>, <<4020>>, <<>>),
     NotADict}

StarsDataInputs == {<<>>} \cup {<<list>> : list \in SeqsUpTo(StarDataInputs, MaxObs)}

\* None, a string that parses, a string that does not.
TimeArgInputs == {<<>>, <<ObsTime>>, <<BadTime>>}

\* What datetime.now() answers.
NowInputs == {[day |-> 8891, hour |-> 22], [day |-> 8892, hour |-> 3]}

\* estimated_lat and estimated_lon: None or a number.
EstimateArgInputs == {<<<<>>, <<>>>>, <<<<-6000>>, <<>>>>, <<<<-6000>>, <<-10000>>>>,
                      <<<<2500>>, <<5000>>>>}

DetectedStar(name, ra, dec) == [name |-> name, ra |-> ra, dec |-> dec]

\* What detect_stars_from_file answers: None, no match, or the stars matched.
DetectionInputs ==
    {<<>>,
     <<[success |-> FALSE, message |-> "No star pattern match found", stars |-> <<>>]>>,
     <<[success |-> TRUE, message |-> "Stars detected successfully",
        stars |-> <<DetectedStar(<<"Sirius">>, <<10129>>, <<-1672>>),
                    DetectedStar(<<"Canopus">>, <<9599>>, <<-5270>>)>>]>>,
     <<[success |-> TRUE, message |-> "Stars detected successfully",
        stars |-> <<DetectedStar(<<"Sirius">>, <<10129>>, <<-1672>>),
                    DetectedStar(<<>>, <<3795>>, <<8926>>),
                    DetectedStar(<<"Canopus">>, <<9599>>, <<-5270>>)>>]>>}

Altitude(name, altitude) == [name |-> name, altitude |-> altitude]

\* user_altitudes: None, or a dictionary from star names to altitudes.
AltitudesInputs ==
    {<<>>,
     <<<<>>>>,
     <<<<Altitude("Sirius", <<5550>>), Altitude("Canopus", <<4020>>)>>>>,
     <<<<Altitude("Sirius", <<5550>>), Altitude("Canopus", <<9500>>)>>>>,
     <<<<Altitude("Sirius", <<5550>>), Altitude("Canopus", <<>>)>>>>}

ImagePathInputs == {<<>>, <<"">>, <<"sky.jpg">>}

MethodInputs ==
    {<<>>, <<"detect_stars">>, <<"calculate_position">>, <<"calculate_from_names">>,
     <<"get_star_info">>, <<"list_stars">>, <<"process_image">>, <<"navigate">>}

\* The clock is read only when no time is given.
NowFor(time) == IF time = <<>> THEN NowInputs ELSE {[day |-> 8891, hour |-> 22]}

\* Lists of one or two observations, for the requests through the bridge.
ShortObservationsInputs ==
    {<<>>} \cup {<<list>> : list \in SeqsUpTo(ObservationInputs, 2)}

ShortStarsDataInputs ==
    {<<>>} \cup {<<list>> : list \in SeqsUpTo(StarDataInputs, 2)}

\* Requests for handle_request, as <<method, data>>: every method with no
\* data and with the empty dictionary, and each method with data for it.
RequestInputs ==
    {<<method, data>> : method \in MethodInputs, data \in {<<>>, <<NoData>>}}
    \cup {<<<<"calculate_from_names">>,
            <<NamesData(observations, time, EstimatedPosition(est[1], est[2]))>>>> :
            observations \in ShortObservationsInputs, time \in {<<>>, <<ObsTime>>},
            est \in {<<<<>>, <<>>>>, <<<<-6000>>, <<-10000>>>>}}
    \cup {<<method, <<[NoData EXCEPT !.stars = stars]>>>> :
            method \in {<<"calculate_position">>, <<"calculate_from_names">>},
            stars \in ShortStarsDataInputs}
    \cup {<<method, <<ImageData(image_path, altitudes, <<ObsTime>>, <<>>)>>>> :
            method \in {<<"process_image">>, <<"detect_stars">>},
            image_path \in ImagePathInputs, altitudes \in AltitudesInputs}
    \cup {<<<<"get_star_info">>, <<[NoData EXCEPT !.name = name]>>>> :
            name \in {<<"canopus">>, <<"Nowhere">>, <<"">>}}
    \cup {<<<<"get_star_info">>, <<[NoData EXCEPT !.arabic_name = arabic_name]>>>> :
            arabic_name \in {<<"suhayl">>, <<"al-zuhara">>}}
    \cup {<<<<"list_stars">>, <<[NoData EXCEPT !.min_magnitude = <<0>>]>>>>}

\* The star detector is asked only for the two methods on an image.
DetectionFor(method) ==
    IF method \in {<<"process_image">>, <<"detect_stars">>} THEN DetectionInputs
    ELSE {<<>>}

\* Request texts for handle_json_request.
RpcInputs ==
    {MalformedText, EmptyText, JsonText(NotAnObject)}
    \cup {JsonText(RpcRequest(method, params, id)) :
            method \in MethodInputs,
            params \in {<<>>,
                        <<NamesData(<<<<Observation(<<"Sirius">>, <<5550>>),
                                        Observation(<<"Canopus">>, <<4020>>)>>>>,
                                    <<ObsTime>>, <<>>)>>,
                        <<ImageData(<<"sky.jpg">>,
                                    <<<<Altitude("Sirius", <<5550>>),
                                        Altitude("Canopus", <<4020>>)>>>>,
                                    <<ObsTime>>, <<>>)>>,
                        <<[NoData EXCEPT !.name = <<"Sirius">>]>>},
            id \in {<<>>, <<7>>}}

\* A call: "calling" while handle_request is to run for it, "returned" once
\* its outcome is known.
Request(stage, entry, method, data, json, id, detection, now, outcome) ==
    [called |-> TRUE, stage |-> stage, entry |-> entry, method |-> method,
     data |-> data, json |-> json, id |-> id, detection |-> detection,
     now |-> now, outcome |-> outcome]

NoClock == [day |-> 0, hour |-> 0]

\* The call a prologue ends in, or its outcome when it makes none.
Calling(entry, json, prologue) ==
    IF prologue.exc # "none"
    THEN Request("returned", entry, <<>>, <<>>, json, <<>>, <<>>, NoClock,
                 Raise(prologue.exc, prologue.msg))
    ELSE IF prologue.returned # <<>>
    THEN Request("returned", entry, <<>>, <<>>, json, <<>>, <<>>, NoClock,
                 Ok(prologue.returned[1]))
    ELSE Request("calling", entry, prologue.method, prologue.data, json,
                 prologue.id, <<>>, NoClock, Ok(<<>>))

\* service.calculate_position_from_star_names(observations, time, estimate)
CallFromStarNames(observations, observation_time, est, now) ==
    /\ ~last_request.called
    /\ last_request' =
            Request("returned", "calculate_position_from_star_names", <<>>,
                    <<NamesData(observations, observation_time,
                                EstimatedPosition(est[1], est[2]))>>,
                    EmptyText, <<>>, <<>>, now,
                    calculate_position_from_star_names(
                        observations, observation_time,
                        EstimatedPosition(est[1], est[2]), now))
    /\ UNCHANGED <<sight_vars, solver_vars, core_vars, _service_instance, angle_vars, thread_vars, call_vars>>

\* service.calculate_position_from_data(stars_data)
CallFromData(stars_data) ==
    /\ ~last_request.called
    /\ last_request' =
            Request("returned", "calculate_position_from_data", <<>>,
                    <<[NoData EXCEPT !.stars = stars_data]>>, EmptyText, <<>>, <<>>,
                    NoClock, Ok(calculate_position_from_data(stars_data)))
    /\ UNCHANGED <<sight_vars, solver_vars, core_vars, _service_instance, angle_vars, thread_vars, call_vars>>

\* service.process_image(image_path, user_altitudes, time, estimate)
CallProcessImage(image_path, user_altitudes, observation_time, est, detection, now) ==
    /\ ~last_request.called
    /\ last_request' =
            Request("returned", "process_image", <<>>,
                    <<ImageData(<<image_path>>, user_altitudes, observation_time,
                                EstimatedPosition(est[1], est[2]))>>,
                    EmptyText, <<>>, detection, now,
                    Ok(process_image(<<image_path>>, user_altitudes, observation_time,
                                     EstimatedPosition(est[1], est[2]), detection, now)))
    /\ UNCHANGED <<sight_vars, solver_vars, core_vars, _service_instance, angle_vars, thread_vars, call_vars>>

\* bridge.handle_request(method, data), called directly.
CallHandleRequest(method, data) ==
    /\ ~last_request.called
    /\ last_request' = Calling("handle_request", EmptyText, Prologue(method, data, <<>>))
    /\ UNCHANGED <<sight_vars, solver_vars, core_vars, _service_instance, angle_vars, thread_vars, call_vars>>

\* get_service_instance(), as the two functions below call it.
get_service_instance == _service_instance' = <<"AndroidBridgeService">>

\* calculate_position_simple(observations_json, time, lat, lon)
CalculatePositionSimple(observations_json, time, est) ==
    /\ ~last_request.called
    /\ get_service_instance
    /\ last_request' =
            Calling("calculate_position_simple", observations_json,
                    calculate_position_simple(observations_json, time, est[1], est[2]))
    /\ UNCHANGED <<sight_vars, solver_vars, core_vars, angle_vars, thread_vars, call_vars>>

\* process_star_image(image_path, altitudes_json, time, lat, lon)
ProcessStarImage(image_path, altitudes_json, time, est) ==
    /\ ~last_request.called
    /\ get_service_instance
    /\ last_request' =
            Calling("process_star_image", altitudes_json,
                    process_star_image(image_path, altitudes_json, time, est[1], est[2]))
    /\ UNCHANGED <<sight_vars, solver_vars, core_vars, angle_vars, thread_vars, call_vars>>

\* rpc.handle_json_request(json_str)
HandleJsonRequest(json_str) ==
    /\ ~last_request.called
    /\ last_request' = Calling("handle_json_request", json_str,
                               handle_json_request(json_str))
    /\ UNCHANGED <<sight_vars, solver_vars, core_vars, _service_instance, angle_vars, thread_vars, call_vars>>

\* handle_request runs for the call in progress, and its caller returns.
\* detection and now are what the star detector and the clock answer.
HandleRequest ==
    /\ last_request.called
    /\ last_request.stage = "calling"
    /\ \E detection \in DetectionFor(last_request.method),
          now \in NowFor(IF last_request.data = <<>> THEN <<ObsTime>>
                         ELSE last_request.data[1].time) :
            last_request' =
                [last_request EXCEPT
                    !.stage = "returned",
                    !.detection = detection,
                    !.now = now,
                    !.outcome = Ok(Epilogue(last_request.entry, last_request.id,
                                            handle_request(last_request.method,
                                                           last_request.data,
                                                           detection, now)))]
    /\ UNCHANGED <<sight_vars, solver_vars, core_vars, _service_instance, angle_vars, thread_vars, call_vars>>

\* The caller takes the result.
Return ==
    /\ last_request.called
    /\ last_request.stage = "returned"
    /\ last_request' = NoCall
    /\ UNCHANGED <<sight_vars, solver_vars, core_vars, _service_instance, angle_vars, thread_vars, call_vars>>

\* The JSON texts of the values of a set, and a malformed text.
Texts(values) == {JsonText(value) : value \in values} \cup {MalformedText}

BridgeNext ==
    \/ \E observations \in ObservationsInputs, time \in {<<ObsTime>>, <<BadTime>>} :
            \E now \in NowFor(time) :
                CallFromStarNames(observations, time, <<<<>>, <<>>>>, now)
    \/ \E observations \in ShortObservationsInputs, time \in TimeArgInputs,
          est \in {<<<<>>, <<>>>>, <<<<-6000>>, <<-10000>>>>} :
            \E now \in NowFor(time) :
                CallFromStarNames(observations, time, est, now)
    \/ \E stars_data \in StarsDataInputs : CallFromData(stars_data)
    \/ \E user_altitudes \in AltitudesInputs, time \in TimeArgInputs,
          est \in EstimateArgInputs, detection \in DetectionInputs :
            \E now \in NowFor(time) :
                CallProcessImage("sky.jpg", user_altitudes, time, est, detection, now)
    \/ \E request \in RequestInputs : CallHandleRequest(request[1], request[2])
    \/ \E observations_json \in Texts(ShortObservationsInputs), time \in TimeArgInputs,
          est \in EstimateArgInputs :
            CalculatePositionSimple(observations_json, time, est)
    \/ \E image_path \in ImagePathInputs,
          altitudes_json \in Texts(AltitudesInputs) \cup {EmptyText},
          time \in TimeArgInputs, est \in {<<<<>>, <<>>>>, <<<<2500>>, <<5000>>>>} :
            ProcessStarImage(image_path, altitudes_json, time, est)
    \/ \E json_str \in RpcInputs : HandleJsonRequest(json_str)
    \/ HandleRequest
    \/ Return

BridgeSpec == Init /\ [][BridgeNext]_vars

\* ------------------------------------------------------------------------
\* Properties of Sight construction (SightSpec)
\* ------------------------------------------------------------------------

DecOutside(dec) == dec < -9000 \/ dec > 9000

AltitudeOutside(altitude) == altitude <= 0 \/ altitude >= 9000

NamesDeclination(call) ==
    /\ call.exc = "ValueError"
    /\ call.msg = [text |-> "Declination must be between -90 and +90, got",
                   got |-> <<call.dec>>]

NamesAltitude(call) ==
    /\ call.exc = "ValueError"
    /\ call.msg = [text |-> "Altitude must be between 0 and 90 degrees, got",
                   got |-> <<call.altitude>>]

Computed(call) ==
    \E k \in 1..Len(call.steps) : call.steps[k] \in {"correct_altitude", "calculate_gha"}

\* C9, as stated: whenever the declination is outside [-90, 90] or the
\* observed altitude is outside (0, 90), constructing a Sight fails with an
\* error naming the offending field and its value, the declination first, and
\* nothing is computed unless both checks pass.
C9_ErrorNamesField ==
    last_sight.called =>
        /\ DecOutside(last_sight.dec) => NamesDeclination(last_sight)
        /\ ~DecOutside(last_sight.dec) /\ AltitudeOutside(last_sight.altitude)
                => NamesAltitude(last_sight)
        /\ Computed(last_sight)
                => ~DecOutside(last_sight.dec) /\ ~AltitudeOutside(last_sight.altitude)

\* C9, amended: a declination outside [-90, 90] fails with an error naming
\* the declination and its value, before anything else is done; with the
\* declination in range, a time string that does not parse fails with the
\* parser's error before the altitude is looked at; with the declination in
\* range and the time parsed, an altitude outside (0, 90), end points
\* included, fails with an error naming the altitude and its value.  A failed
\* construction yields no Sight, and the corrected altitude and the hour
\* angle are computed only after both checks have passed, in that order.
C9_ValidationOrder ==
    last_sight.called =>
        /\ DecOutside(last_sight.dec)
                => NamesDeclination(last_sight) /\ last_sight.steps = <<"check_dec">>
        /\ ~DecOutside(last_sight.dec) /\ ~last_sight.time.ok
                => /\ last_sight.exc = "ValueError"
                   /\ last_sight.msg.text = "Invalid isoformat string"
                   /\ last_sight.steps = <<"check_dec", "parse_time">>
        /\ ~DecOutside(last_sight.dec) /\ last_sight.time.ok
           /\ AltitudeOutside(last_sight.altitude)
                => /\ NamesAltitude(last_sight)
                   /\ last_sight.steps = <<"check_dec", "parse_time", "check_altitude">>
        /\ last_sight.exc # "none" => last_sight.made = <<>> /\ ~Computed(last_sight)
        /\ Computed(last_sight)
                => /\ ~DecOutside(last_sight.dec) /\ ~AltitudeOutside(last_sight.altitude)
                   /\ last_sight.steps = <<"check_dec", "parse_time", "check_altitude",
                                           "correct_altitude", "calculate_gha">>
                   /\ last_sight.made # <<>>

\* An altitude of exactly 90 degrees, with a valid declination and time, has
\* been rejected.
C9_Witness ==
    /\ last_sight.called
    /\ ~DecOutside(last_sight.dec)
    /\ last_sight.time.ok
    /\ last_sight.altitude = 9000
    /\ NamesAltitude(last_sight)

\* ------------------------------------------------------------------------
\* Properties of the intersection solver (SolverSpec)
\* ------------------------------------------------------------------------

SolveD(call) == AngleBetween(to_rectangular(call.gp1), to_rectangular(call.gp2))

SolveR1(call) == DistToArc(call.dist1)

SolveR2(call) == DistToArc(call.dist2)

\* C3, as stated: calculate_circle_intersection has exactly two outcomes, no
\* intersection or a pair of candidates; it never fails in another way, and
\* coincident circles (d = 0 with r1 = r2) are reported as no intersection.
C3_TwoOutcomes ==
    last_solve.called =>
        /\ last_solve.result.exc = "none"
        /\ Len(last_solve.result.val) \in {0, 2}
        /\ \/ SolveD(last_solve) > SolveR1(last_solve) + SolveR2(last_solve)
           \/ SolveD(last_solve) < Abs(SolveR1(last_solve) - SolveR2(last_solve))
           \/ SolveD(last_solve) = 0
                => last_solve.result.val = <<>>

\* Coincident circles have been given to the solver and it has raised.
C3_Witness ==
    /\ last_solve.called
    /\ last_solve.gp1 = last_solve.gp2
    /\ last_solve.dist1 = last_solve.dist2
    /\ last_solve.dist1 > 0
    /\ last_solve.result.exc = "ZeroDivisionError"

\* The angle from a candidate to a GP, in centidegrees.
AngleFrom(candidate, gp) ==
    AngleBetween(to_rectangular(candidate), to_rectangular(gp))

\* Whether a candidate is on both circles: at r1 from gp1 and at r2 from
\* gp2, to within half a degree.
OnBothCircles(candidate, call) ==
    /\ Abs(AngleFrom(candidate, call.gp1) - SolveR1(call)) <= 50
    /\ Abs(AngleFrom(candidate, call.gp2) - SolveR2(call)) <= 50

\* C20: both candidates calculate_circle_intersection returns lie at angular
\* distance r1 from GP1 and r2 from GP2, within rounding, for every pair of
\* intersecting circles.
C20_CandidatesOnBothCircles ==
    last_solve.called /\ last_solve.result.exc = "none"
            /\ last_solve.result.val # <<>> =>
        /\ OnBothCircles(last_solve.result.val[1], last_solve)
        /\ OnBothCircles(last_solve.result.val[2], last_solve)

\* Two circles of 50 degrees about GPs 90 degrees apart on the equator have
\* been given to the solver, and it has returned two candidates.
C20_Witness ==
    /\ last_solve.called
    /\ last_solve.gp1 = LatLon(0, -9000)
    /\ last_solve.gp2 = LatLon(0, 0)
    /\ last_solve.dist1 = ArcToDist(50 * Deg)
    /\ last_solve.dist2 = ArcToDist(50 * Deg)
    /\ last_solve.result.exc = "none"
    /\ Len(last_solve.result.val) = 2

\* ------------------------------------------------------------------------
\* Properties of the position fix (Spec)
\* ------------------------------------------------------------------------

\* The angle between the GPs of two sights and the angular radii of their
\* circles of position.
GpSeparation(sight1, sight2) ==
    AngleBetween(to_rectangular(get_gp(sight1)), to_rectangular(get_gp(sight2)))

Radius(sight) == DistToArc(get_distance_from_gp(sight))

TooFarApart(sight1, sight2) ==
    GpSeparation(sight1, sight2) > Radius(sight1) + Radius(sight2)

OneInsideTheOther(sight1, sight2) ==
    GpSeparation(sight1, sight2) < Abs(Radius(sight1) - Radius(sight2))

Coincident(sight1, sight2) ==
    GpSeparation(sight1, sight2) = 0 /\ Radius(sight1) = Radius(sight2)

Degenerate(sight1, sight2) ==
    \/ TooFarApart(sight1, sight2)
    \/ OneInsideTheOther(sight1, sight2)
    \/ Coincident(sight1, sight2)

PairCount(n) == (n * (n - 1)) \div 2

\* C1, as stated: in a fix from three or more sights no pair aborts the fix
\* (every pair is visited and none ends in an exception), the fix returns a
\* position when some pair of the collection is not degenerate, and fails
\* only when every pair is degenerate.
C1_DegeneratePairsSkipped ==
    \A f \in {fix[k] : k \in 1..Len(fix)} :
        Len(f.before) >= 3 =>
            /\ Len(f.result.pairs) = PairCount(Len(f.before))
            /\ \A k \in 1..Len(f.result.pairs) : f.result.pairs[k].fix.kind # "error"
            /\ f.result.exc = "none"
                <=> \E i \in 1..Len(f.before), j \in 1..Len(f.before) :
                        i < j /\ ~Degenerate(f.before[i], f.before[j])

\* A fix from three sights, two of them the same sight, has ended in the
\* solver's ZeroDivisionError although another pair intersects.
C1_Witness ==
    /\ fix # <<>>
    /\ Len(fix[1].before) = 3
    /\ fix[1].before[1] = fix[1].before[2]
    /\ ~Degenerate(fix[1].before[1], fix[1].before[3])
    /\ fix[1].result.exc = "ZeroDivisionError"

\* C2: a fix from exactly two sights whose circles do not intersect (GPs
\* further apart than the sum of the radii, or one circle strictly inside the
\* other) ends in an error and returns no position, whether or not an
\* estimated position is given.
C2_NoIntersectionIsError ==
    \A f \in {fix[k] : k \in 1..Len(fix)} :
        /\ Len(f.before) = 2
        /\ TooFarApart(f.before[1], f.before[2]) \/ OneInsideTheOther(f.before[1], f.before[2])
        => /\ f.result.exc = "ValueError"
           /\ f.result.msg.text = "No intersection found - circles don't meet"
           /\ f.result.val = <<>>

\* A two-sight fix with an estimated position, the circles too far apart,
\* has failed.
C2_Witness ==
    /\ fix # <<>>
    /\ Len(fix[1].before) = 2
    /\ fix[1].estimated_position # <<>>
    /\ TooFarApart(fix[1].before[1], fix[1].before[2])
    /\ fix[1].result.exc = "ValueError"

DistanceTo(estimated_position, p) == spherical_distance(estimated_position[1], p).val

\* C4: with an estimated position, the candidate selected for a pair is no
\* further from the estimate than the other candidate, and is the second
\* candidate when the two are equally far; a two-sight fix returns the
\* candidate selected.
C4_CloserCandidate ==
    \A f \in {fix[k] : k \in 1..Len(fix)} :
        f.estimated_position # <<>> =>
            /\ \A k \in 1..Len(f.result.pairs) :
                 LET q == f.result.pairs[k].fix
                 IN  q.kind = "chosen" =>
                        /\ q.pick \in {1, 2}
                        /\ DistanceTo(f.estimated_position, q.ints[q.pick])
                              <= DistanceTo(f.estimated_position, q.ints[3 - q.pick])
                        /\ DistanceTo(f.estimated_position, q.ints[1])
                              = DistanceTo(f.estimated_position, q.ints[2])
                           => q.pick = 2
            /\ Len(f.before) = 2 /\ f.result.exc = "none"
                 => LET q == f.result.pairs[1].fix
                    IN  /\ f.result.val.latitude = q.ints[q.pick].lat
                        /\ f.result.val.longitude = q.ints[q.pick].lon

\* Two distinct candidates equally far from the estimate: the second has
\* been selected.
C4_Witness ==
    /\ fix # <<>>
    /\ fix[1].estimated_position # <<>>
    /\ \E k \in 1..Len(fix[1].result.pairs) :
         LET q == fix[1].result.pairs[k].fix
         IN  /\ q.kind = "chosen"
             /\ q.ints[1] # q.ints[2]
             /\ DistanceTo(fix[1].estimated_position, q.ints[1])
                  = DistanceTo(fix[1].estimated_position, q.ints[2])
             /\ q.pick = 2

\* C8: constructing a SightCollection from fewer than two sights fails and
\* yields no collection, so every collection, and every collection a fix is
\* computed on, holds at least two sights.
C8_AtLeastTwoSights ==
    /\ last_coll.called /\ last_coll.count < 2
            => last_coll.exc = "ValueError" /\ collection = <<>>
    /\ \A c \in {collection[k] : k \in 1..Len(collection)} : Len(c.sights) >= 2
    /\ \A f \in {fix[k] : k \in 1..Len(fix)} : Len(f.before) >= 2

\* A SightCollection of one sight has been refused.
C8_Witness ==
    /\ last_coll.called
    /\ last_coll.count = 1
    /\ last_coll.exc = "ValueError"
    /\ collection = <<>>

\* ------------------------------------------------------------------------
\* Properties of the service and the bridge (BridgeSpec)
\* ------------------------------------------------------------------------

Returned == last_request.called /\ last_request.stage = "returned"

ServiceEntries ==
    {"calculate_position_from_star_names", "calculate_position_from_data",
     "process_image"}

BridgeEntries ==
    {"handle_request", "handle_json_request", "process_star_image",
     "calculate_position_simple"}

\* The dictionaries with a 'calculated_position' key in what a call
\* returned: the result of one of the three service functions, as returned or
\* inside the bridge's answer.
ServiceResults(request) ==
    IF request.outcome.exc # "none" THEN {}
    ELSE LET answers ==
                IF request.entry \in ServiceEntries \cup {"handle_request"}
                THEN {request.outcome.val}
                ELSE IF request.entry = "handle_json_request"
                THEN {request.outcome.val.value.result[k] :
                        k \in 1..Len(request.outcome.val.value.result)}
                ELSE {request.outcome.val.value}
         IN  {d \in answers : "calculated_position" \in d.keys}

\* The time string the sights of a request are constructed with.
TimeOf(request) ==
    IF request.data[1].time = <<>> THEN isoformat(request.now)
    ELSE request.data[1].time[1]

\* The sights a result lists in used_sights, as Sight constructs them.
UsedSights(request, result) ==
    [k \in 1..Len(result.used_sights) |->
        Sight_init(result.used_sights[k].ra, result.used_sights[k].dec,
                   result.used_sights[k].altitude, TimeOf(request), 0,
                   DefaultTemperature, DefaultPressure, TRUE, TRUE).val]

FromNames(request) ==
    \/ request.entry \in {"calculate_position_from_star_names", "calculate_position_simple"}
    \/ request.entry = "handle_request" /\ request.method = <<"calculate_from_names">>

\* C5, as stated: when a request to calculate from names carries an
\* estimated position {lat, lon}, the fix returned is the one
\* SightCollection.calculate_position returns for the same sights with that
\* estimate.
C5_EstimateIsUsed ==
    Returned /\ FromNames(last_request) /\ last_request.data # <<>>
        => \A result \in ServiceResults(last_request) :
                result.success /\ last_request.data[1].estimated_position # <<>>
                    => result.calculated_position
                         = <<calculate_position(
                                [sights |-> UsedSights(last_request, result)],
                                EstPos(last_request.data[1].estimated_position)).val>>

\* calculate_position_simple has been given two observations that intersect
\* and an estimate, and has returned the first candidate although the second
\* is nearer the estimate.
C5_Witness ==
    /\ Returned
    /\ last_request.entry = "calculate_position_simple"
    /\ last_request.data # <<>>
    /\ last_request.data[1].estimated_position # <<>>
    /\ \E result \in ServiceResults(last_request) :
        /\ result.success
        /\ Len(result.used_sights) = 2
        /\ result.calculated_position
             # <<calculate_position(
                    [sights |-> UsedSights(last_request, result)],
                    EstPos(last_request.data[1].estimated_position)).val>>

\* C6, as stated: every entry point of the bridge returns a structured
\* result for every input; no exception reaches the caller.
C6_NoExceptionPropagates ==
    Returned /\ last_request.entry \in BridgeEntries
        => last_request.outcome.exc = "none"

\* calculate_position_simple has been given a malformed JSON text and has
\* raised the parser's exception.
C6_Witness ==
    /\ Returned
    /\ last_request.entry = "calculate_position_simple"
    /\ last_request.json.kind = "malformed"
    /\ last_request.outcome.exc = "JSONDecodeError"

\* C7: in every result of process_image, calculate_position_from_data and
\* calculate_position_from_star_names, success is true exactly when
\* calculated_position is present; a failure carries no position and a
\* non-empty message, a success carries a latitude and a longitude.
C7_SuccessIffPosition ==
    Returned =>
        \A result \in ServiceResults(last_request) :
            /\ result.success <=> result.calculated_position # <<>>
            /\ ~result.success => result.message # ""
            /\ result.success
                => /\ result.calculated_position[1].latitude \in -9000..9000
                   /\ result.calculated_position[1].longitude \in -18000..18000

\* A fix from two valid sights has failed, and the result carries the
\* message of the failure and no position.
C7_Witness ==
    /\ Returned
    /\ last_request.entry \in ServiceEntries
    /\ \E result \in ServiceResults(last_request) :
        /\ Len(result.used_sights) >= 2
        /\ ~result.success
        /\ result.calculated_position = <<>>
        /\ result.message = "Error calculating position: No intersection found - circles don't meet"

\* The bodies of the database that have coordinates.
HasCoordinates(observation) ==
    /\ observation.name # <<>>
    /\ upper(observation.name[1]) \in {"SIRIUS", "CANOPUS", "POLARIS"}

WithCoordinates(observations) == SelectSeq(observations, HasCoordinates)

\* C10: in calculate_position_from_star_names an observation naming a body
\* without known coordinates is dropped and the call goes on: the result is
\* the one the remaining observations give when two or more remain, and a
\* failure with a message when fewer than two remain.
C10_UnknownBodyDropped ==
    /\ Returned
    /\ last_request.entry = "calculate_position_from_star_names"
    /\ last_request.data[1].observations # <<>>
    /\ Len(last_request.data[1].observations[1]) >= 2
    /\ \A k \in 1..Len(last_request.data[1].observations[1]) :
            last_request.data[1].observations[1][k].isdict
    => /\ last_request.outcome.exc = "none"
       /\ Len(WithCoordinates(last_request.data[1].observations[1])) < 2
            => /\ ~last_request.outcome.val.success
               /\ last_request.outcome.val.message # ""
               /\ last_request.outcome.val.calculated_position = <<>>
               /\ last_request.outcome.val.used_sights = <<>>
       /\ Len(WithCoordinates(last_request.data[1].observations[1])) >= 2
            => last_request.outcome
                 = calculate_position_from_star_names(
                        <<WithCoordinates(last_request.data[1].observations[1])>>,
                        last_request.data[1].time,
                        last_request.data[1].estimated_position,
                        last_request.now)
       /\ \A k \in 1..Len(last_request.outcome.val.used_sights) :
            \E j \in 1..Len(last_request.data[1].observations[1]) :
                /\ HasCoordinates(last_request.data[1].observations[1][j])
                /\ last_request.outcome.val.used_sights[k].star
                     = last_request.data[1].observations[1][j].name[1]

\* The first of three observations names an unknown body; the two after it
\* have been used and the fix has succeeded.
C10_Witness ==
    /\ Returned
    /\ last_request.entry = "calculate_position_from_star_names"
    /\ last_request.data[1].observations # <<>>
    /\ Len(last_request.data[1].observations[1]) = 3
    /\ last_request.data[1].observations[1][1] = Observation(<<"Nowhere">>, <<5550>>)
    /\ last_request.outcome.exc = "none"
    /\ last_request.outcome.val.success
    /\ Len(last_request.outcome.val.used_sights) = 2

\* ------------------------------------------------------------------------
\* The observation time of a request (BridgeSpec)
\* ------------------------------------------------------------------------

\* The requests that build sights from records {ra, dec, altitude, ...}.
FromRecords(request) ==
    \/ request.entry = "calculate_position_from_data"
    \/ request.entry = "handle_request" /\ request.method = <<"calculate_position">>

\* The requests that build sights from the stars detected in an image.
FromImage(request) ==
    \/ request.entry \in {"process_image", "process_star_image"}
    \/ request.entry = "handle_request" /\ request.method = <<"process_image">>

\* A record with everything a sight needs but the time.
LacksOnlyTime(star_data) ==
    /\ star_data.isdict
    /\ star_data.ra # <<>> /\ star_data.dec # <<>> /\ star_data.altitude # <<>>
    /\ star_data.dec[1] \in -9000..9000
    /\ star_data.altitude[1] \in 1..8999
    /\ star_data.time = <<>>

\* The record is among the sights the result lists as used.
IsUsed(star_data, result) ==
    \E j \in 1..Len(result.used_sights) :
        /\ result.used_sights[j].ra = star_data.ra[1]
        /\ result.used_sights[j].dec = star_data.dec[1]
        /\ result.used_sights[j].altitude = star_data.altitude[1]

\* C11, as stated: when the observation time is omitted the current time is
\* the observation time of every observation, and no observation is dropped
\* because its time is absent, on the path from names, the path from an
\* image and the path from records {ra, dec, altitude, ...}.
C11_AbsentTimeIsNow ==
    Returned /\ last_request.data # <<>> =>
        \A result \in ServiceResults(last_request) :
            /\ /\ FromNames(last_request) \/ FromImage(last_request)
               /\ last_request.data[1].time = <<>>
               /\ result.success
               => \A k \in 1..Len(result.calculated_position[1].observation_times) :
                    result.calculated_position[1].observation_times[k]
                        = [day |-> last_request.now.day, hour |-> last_request.now.hour]
            /\ /\ FromRecords(last_request)
               /\ last_request.data[1].stars # <<>>
               /\ Len(last_request.data[1].stars[1]) >= 2
               => \A k \in 1..Len(last_request.data[1].stars[1]) :
                    LacksOnlyTime(last_request.data[1].stars[1][k])
                        => IsUsed(last_request.data[1].stars[1][k], result)

\* A request to calculate_position through the bridge has two records, one of
\* them complete but for its time, and that record has been dropped.
C11_Witness ==
    /\ Returned
    /\ last_request.entry = "handle_request"
    /\ last_request.method = <<"calculate_position">>
    /\ last_request.data # <<>>
    /\ last_request.data[1].stars # <<>>
    /\ Len(last_request.data[1].stars[1]) = 2
    /\ \E result \in ServiceResults(last_request) :
        \E k \in 1..2 :
            /\ LacksOnlyTime(last_request.data[1].stars[1][k])
            /\ ~IsUsed(last_request.data[1].stars[1][k], result)
            /\ ~result.success

\* ------------------------------------------------------------------------
\* Properties of the N-sight fix (Spec)
\* ------------------------------------------------------------------------

Fixes == {fix[k] : k \in 1..Len(fix)}

\* The points a fix has chosen, in the order of its pairs.
PointsOf(pairs) ==
    LET chosen == SelectSeq(pairs, LAMBDA q : q.fix.kind = "chosen")
    IN  [k \in 1..Len(chosen) |-> chosen[k].fix.ints[chosen[k].fix.pick]]

\* The normalized arithmetic mean of the unit vectors of the points.
MeanPoint(points) ==
    LET vectors == [k \in 1..Len(points) |-> to_rectangular(points[k])]
        total == SumVecs(vectors, 1, <<0, 0, 0>>)
    IN  to_latlon(normalize_vect([i \in 1..3 |-> RDiv(total[i], Len(points))])).val

\* C12, as stated: a fix from N >= 3 sights calls the solver once for every
\* pair i < j, N(N-1)/2 calls in all; a pair that intersects contributes one
\* chosen point and a skipped pair none; and the fix returns the normalized
\* mean of the unit vectors of the chosen points.
C12_EveryPairOnce ==
    \A f \in Fixes :
        Len(f.before) >= 3 =>
            /\ Len(f.result.pairs) = PairCount(Len(f.before))
            /\ \A i \in 1..Len(f.before), j \in 1..Len(f.before) :
                 i < j => Cardinality({k \in 1..Len(f.result.pairs) :
                                         /\ f.result.pairs[k].i = i
                                         /\ f.result.pairs[k].j = j}) = 1
            /\ \A k \in 1..Len(f.result.pairs) :
                 /\ f.result.pairs[k].fix.kind \in {"chosen", "none"}
                 /\ f.result.pairs[k].fix.kind = "chosen"
                      <=> ~Degenerate(f.before[f.result.pairs[k].i],
                                      f.before[f.result.pairs[k].j])
            /\ PointsOf(f.result.pairs) # <<>>
                 => /\ f.result.exc = "none"
                    /\ f.result.val.latitude = MeanPoint(PointsOf(f.result.pairs)).lat
                    /\ f.result.val.longitude = MeanPoint(PointsOf(f.result.pairs)).lon

\* A fix from three sights has ended at its first pair, which is coincident:
\* one solver call in place of three, and no position although a later pair
\* intersects.
C12_Witness ==
    /\ fix # <<>>
    /\ Len(fix[1].before) = 3
    /\ Len(fix[1].result.pairs) = 1
    /\ fix[1].result.pairs[1].fix.kind = "error"
    /\ fix[1].result.exc # "none"
    /\ ~Degenerate(fix[1].before[2], fix[1].before[3])

\* The sights of a fix in the order p, a permutation of their indices.
Reordered(f, p) == [sights |-> [k \in 1..Len(f.before) |-> f.before[p[k]]]]

\* Two positions that agree to a tenth of a degree.
SamePosition(p, q) == Abs(p.lat - q.lat) <= 10 /\ Abs(p.lon - q.lon) <= 10

\* The fix agrees with the fix r of the same sights in another order.
SameFix(f, r) ==
    /\ r.exc = "none" <=> f.result.exc = "none"
    /\ f.result.exc = "none"
         => SamePosition([lat |-> f.result.val.latitude, lon |-> f.result.val.longitude],
                         r.val)

\* C13, as stated: the position get_intersections returns does not depend on
\* the order of the sights: every permutation of the collection gives, with
\* the same estimated position or none, the same fix up to rounding.
C13_OrderIndependent ==
    \A f \in Fixes :
        \A p \in Permutations(1..Len(f.before)) :
            SameFix(f, get_intersections(Reordered(f, p), f.estimated_position))

\* A fix from two sights without an estimate has returned a position, and
\* the same two sights in the other order give a position in the other
\* hemisphere.
C13_Witness ==
    /\ fix # <<>>
    /\ Len(fix[1].before) = 2
    /\ fix[1].estimated_position = <<>>
    /\ fix[1].result.exc = "none"
    /\ fix[1].result.val.latitude > 0
    /\ get_intersections([sights |-> <<fix[1].before[2], fix[1].before[1]>>], <<>>).exc = "none"
    /\ get_intersections([sights |-> <<fix[1].before[2], fix[1].before[1]>>], <<>>).val.lat
         = -fix[1].result.val.latitude

\* The solver's answer for the pair of sights q of the fix f.
SolverAnswer(f, q) ==
    calculate_circle_intersection(get_gp(f.before[q.i]), get_distance_from_gp(f.before[q.i]),
                                  get_gp(f.before[q.j]), get_distance_from_gp(f.before[q.j]))

\* The first candidates of the pairs of f in which a candidate was chosen.
FirstCandidates(f) ==
    LET chosen == SelectSeq(f.result.pairs, LAMBDA q : q.fix.kind = "chosen")
    IN  [k \in 1..Len(chosen) |-> chosen[k].fix.ints[1]]

\* The position is the one the fix f returned.
Returns(f, position) ==
    /\ f.result.val.latitude = position.lat
    /\ f.result.val.longitude = position.lon

\* C14: without an estimated position the second candidate is never
\* selected: the candidate chosen for a pair is the first of the two points
\* the solver answers for it, a two-sight fix returns it, and a fix from
\* more sights returns the mean of the first candidates.
C14_FirstCandidateWithoutEstimate ==
    \A f \in Fixes :
        f.estimated_position = <<>> =>
            /\ \A k \in 1..Len(f.result.pairs) :
                 f.result.pairs[k].fix.kind = "chosen"
                    => /\ f.result.pairs[k].fix.pick = 1
                       /\ f.result.pairs[k].fix.ints = SolverAnswer(f, f.result.pairs[k]).val
            /\ Len(f.before) = 2 /\ f.result.exc = "none"
                 => Returns(f, f.result.pairs[1].fix.ints[1])
            /\ Len(f.before) >= 3 /\ f.result.exc = "none"
                 => Returns(f, MeanPoint(FirstCandidates(f)))

\* A fix from three sights without an estimate: three pairs intersect, each
\* with two distinct candidates, and the first of each has been selected.
C14_Witness ==
    /\ fix # <<>>
    /\ fix[1].estimated_position = <<>>
    /\ Len(fix[1].before) = 3
    /\ fix[1].result.exc = "none"
    /\ Len(FirstCandidates(fix[1])) = 3
    /\ \A k \in 1..Len(fix[1].result.pairs) :
         /\ fix[1].result.pairs[k].fix.kind = "chosen"
         /\ fix[1].result.pairs[k].fix.pick = 1
         /\ fix[1].result.pairs[k].fix.ints[1] # fix[1].result.pairs[k].fix.ints[2]

\* ------------------------------------------------------------------------
\* Properties of the geographic position of a sight (SightSpec)
\* ------------------------------------------------------------------------

\* C15, as stated: the GP longitude of every Sight lies in (-180, 180], so
\* that GHA 180 gives longitude +180 and not -180, and the GP latitude is the
\* declination.
C15_GpLongitudeHalfOpen ==
    last_sight.called /\ last_sight.exc = "none" =>
        /\ get_gp(last_sight.made[1]).lon > -180 * Deg
        /\ get_gp(last_sight.made[1]).lon <= 180 * Deg
        /\ get_gp(last_sight.made[1]).lat = last_sight.dec

\* A Sight with GHA 180 has been constructed and its GP longitude is -180.
C15_Witness ==
    /\ last_sight.called
    /\ last_sight.exc = "none"
    /\ last_sight.made[1].gha = 180 * Deg
    /\ get_gp(last_sight.made[1]).lon = -180 * Deg
    /\ get_gp(last_sight.made[1]).lat = last_sight.dec

\* ------------------------------------------------------------------------
\* Properties of the hour angles (AngleSpec)
\* ------------------------------------------------------------------------

\* Whether an angle in steps is in [0, 360).
InTurn(angle) == 0 <= angle /\ angle < 360 * Deg * Fine

\* C16: calculate_gha returns a value in [0, 360) for every right ascension
\* and every time, and calculate_lha returns a value in [0, 360) for every
\* GHA in [0, 360) and every longitude in [-180, 180].
C16_HourAnglesInTurn ==
    last_angle.called => InTurn(last_angle.result)

\* calculate_lha has been given a GHA of 0 and a longitude one step west of
\* Greenwich, or calculate_gha a time before the epoch and the right
\* ascension one step above its sidereal time.
C16_Witness ==
    /\ last_angle.called
    /\ \/ /\ last_angle.op = "calculate_lha"
          /\ last_angle.gha = 0
          /\ last_angle.observer_lon = -1
       \/ /\ last_angle.op = "calculate_gha"
          /\ last_angle.time = BeforeEpoch
          /\ last_angle.ra = Fine * gmst(BeforeEpoch) + 1

\* ------------------------------------------------------------------------
\* Properties of concurrent fixes (ThreadSpec)
\* ------------------------------------------------------------------------

\* C17: a fix is stateless.  During a call of calculate_position and after
\* it, the list of sights and every sight in it are as they were when the
\* call began; a call returns what calculate_position returns on its
\* arguments alone, whatever the other thread did meanwhile; and the second
\* of two successive calls with the same arguments returns what the first
\* returned.
C17_FixIsStateless ==
    \A thread \in Threads :
        frames[thread].pc # "idle" =>
            /\ frames[thread].self.sights = frames[thread].given
            /\ frames[thread].pc = "done" =>
                /\ frames[thread].result[1] =
                       calculate_position([sights |-> frames[thread].given],
                                          frames[thread].estimated_position)
                /\ frames[thread].previous # <<>> =>
                       frames[thread].result = frames[thread].previous

\* Thread a has returned from its second call on three sights with a
\* position, while thread b is in the loop of a call on other sights, with
\* another estimate, one pair visited.
C17_Witness ==
    /\ frames["a"].pc = "done"
    /\ frames["a"].previous # <<>>
    /\ Len(frames["a"].given) = 3
    /\ frames["a"].result[1].exc = "none"
    /\ frames["b"].pc = "loop"
    /\ Len(frames["b"].pairs) = 1
    /\ frames["b"].given # frames["a"].given
    /\ frames["b"].estimated_position # frames["a"].estimated_position

\* The corrected altitude the claim gives for a call of Sight: refraction
\* of the observed altitude, and dip when the height is above 0.
ClaimedAltitude(call) ==
    call.altitude
        - atmospheric_refraction(call.altitude, call.temperature, call.pressure)
        - (IF call.observer_height > 0 THEN horizon_dip(call.observer_height) ELSE 0)

\* The same, with the dip subtracted first.
ClaimedAltitudeDipFirst(call) ==
    (call.altitude
        - (IF call.observer_height > 0 THEN horizon_dip(call.observer_height) ELSE 0))
        - atmospheric_refraction(call.altitude, call.temperature, call.pressure)

\* C18, as stated: every constructed Sight has corrected altitude = observed
\* altitude - refraction(observed altitude, temperature, pressure) - dip,
\* the dip subtracted only for a height above 0, in either order.
C18_EverySightCorrected ==
    last_sight.called /\ last_sight.exc = "none" =>
        /\ last_sight.made[1].corrected_altitude = ClaimedAltitude(last_sight)
        /\ last_sight.made[1].corrected_altitude = ClaimedAltitudeDipFirst(last_sight)

\* C18, amended: every Sight constructed with apply_refraction and apply_dip
\* left True has corrected altitude = observed altitude - refraction(observed
\* altitude, temperature, pressure) - dip, the dip subtracted only for a
\* height above 0, in either order.
C18_CorrectedAltitude ==
    last_sight.called /\ last_sight.exc = "none"
            /\ last_sight.apply_refraction /\ last_sight.apply_dip =>
        /\ last_sight.made[1].corrected_altitude = ClaimedAltitude(last_sight)
        /\ last_sight.made[1].corrected_altitude = ClaimedAltitudeDipFirst(last_sight)

\* A Sight has been constructed with both corrections, at a height above 0,
\* a temperature and a pressure that are not the defaults, and an altitude
\* that the dip alone would take below the horizon.
C18_Witness ==
    /\ last_sight.called
    /\ last_sight.exc = "none"
    /\ last_sight.apply_refraction
    /\ last_sight.apply_dip
    /\ last_sight.observer_height > 0
    /\ last_sight.temperature # DefaultTemperature
    /\ last_sight.pressure # DefaultPressure
    /\ last_sight.altitude - horizon_dip(last_sight.observer_height) <= 0
    /\ atmospheric_refraction(last_sight.altitude, last_sight.temperature,
                              last_sight.pressure) > 0

\* C19: the dictionary calculate_position returns has number_of_sights equal
\* to the number of sights of the collection and, at index i of
\* observation_times, the time of the i-th sight, for a fix of two sights
\* and of more, a sight all of whose pairs were skipped included.
C19_EverySightReported ==
    \A thread \in Threads :
        frames[thread].pc = "done" /\ frames[thread].result[1].exc = "none" =>
            LET reported == frames[thread].result[1].val
                given == frames[thread].given
            IN  /\ reported.number_of_sights = Len(given)
                /\ Len(reported.observation_times) = Len(given)
                /\ \A i \in 1..Len(given) :
                       reported.observation_times[i] = given[i].time

\* A call on three sights taken at three times has returned a position,
\* the circle of the third sight having met neither of the others, and the
\* call of the other thread, on two sights, has returned a position too.
C19_Witness ==
    \E thread \in Threads, other \in Threads :
        /\ frames[thread].pc = "done"
        /\ frames[thread].result[1].exc = "none"
        /\ Len(frames[thread].given) = 3
        /\ \A i, j \in 1..3 :
               i # j => frames[thread].given[i].time # frames[thread].given[j].time
        /\ \A k \in 1..Len(frames[thread].pairs) :
               frames[thread].pairs[k].j = 3 => frames[thread].pairs[k].fix.kind = "none"
        /\ \E k \in 1..Len(frames[thread].pairs) :
               frames[thread].pairs[k].fix.kind = "chosen"
        /\ frames[other].pc = "done"
        /\ frames[other].result[1].exc = "none"
        /\ Len(frames[other].given) = 2

\* ------------------------------------------------------------------------
\* Properties of the vector functions (VectorSpec)
\* ------------------------------------------------------------------------

ZeroVector == <<0, 0, 0>>

\* The average of the vectors of a list of positions, before it is
\* normalised.
MeanVector(positions) ==
    [i \in 1..3 |->
        RDiv(SumVecs([k \in 1..Len(positions) |-> to_rectangular(positions[k])],
                     1, ZeroVector)[i],
             Len(positions))]

\* C21: to_latlon fails on the zero vector and on no other vector,
\* normalize_vect returns the zero vector unchanged, and the average of the
\* chosen points of a fix ends in an error when it is the zero vector.
C21_OnlyZeroVectorFails ==
    last_call.called =>
        /\ last_call.op = "to_latlon" =>
               (last_call.result.exc # "none" <=> last_call.vec = ZeroVector)
        /\ last_call.op = "normalize_vect" /\ last_call.vec = ZeroVector =>
               last_call.result = ZeroVector
        /\ last_call.op = "average" /\ MeanVector(last_call.positions) = ZeroVector =>
               last_call.result.exc = "ValueError"

\* to_latlon has been given a vector that is not the zero vector and whose
\* components are too small to be squared.
C21_Witness ==
    /\ last_call.called
    /\ last_call.op = "to_latlon"
    /\ last_call.vec # ZeroVector
    /\ \A i \in 1..3 : Abs(last_call.vec[i]) <= 1

\* ------------------------------------------------------------------------
\* Properties of the atmospheric corrections (CorrectionSpec)
\* ------------------------------------------------------------------------

\* C22: atmospheric_refraction returns exactly 0 for every altitude <= 0 and
\* every altitude >= 90, whatever the temperature and the pressure, and a
\* positive value at altitude 45, temperature 10 and pressure 101.
C22_RefractionOutsideIsZero ==
    last_call.called /\ last_call.op = "atmospheric_refraction" =>
        /\ last_call.altitude_deg <= 0 \/ last_call.altitude_deg >= 90 * Deg =>
               last_call.result = 0
        /\ (/\ last_call.altitude_deg = 45 * Deg
            /\ last_call.temperature = DefaultTemperature
            /\ last_call.pressure = DefaultPressure)
               => last_call.result > 0

\* The refraction at the horizon has been computed, at a temperature and a
\* pressure that are not the defaults.
C22_Witness ==
    /\ last_call.called
    /\ last_call.op = "atmospheric_refraction"
    /\ last_call.altitude_deg = 0
    /\ last_call.temperature # DefaultTemperature
    /\ last_call.pressure \notin {0, DefaultPressure}

MakesSight(star_data) ==
    /\ star_data.isdict
    /\ star_data.ra # <<>> /\ star_data.dec # <<>>
    /\ star_data.altitude # <<>> /\ star_data.time # <<>>
    /\ star_data.dec[1] \in -9000..9000
    /\ star_data.time[1].ok
    /\ star_data.altitude[1] \in 1..8999

\* The entry of used_sights for a record.
ListedRecord(star_data) ==
    [star |-> IF star_data.name = <<>> THEN "Unknown" ELSE star_data.name[1],
     ra |-> star_data.ra[1], dec |-> star_data.dec[1],
     altitude |-> star_data.altitude[1]]

\* The entries of used_sights for the records of a list, in its order.
ListedRecords(stars_data) ==
    LET made == SelectSeq(stars_data, MakesSight)
    IN  [k \in 1..Len(made) |-> ListedRecord(made[k])]

\* A detected star as a record of star data: its altitude is the one the
\* user gave for its name, its time the time of the request.
StarAsRecord(star, user_altitudes, time) ==
    StarData(IF star.name = <<"">> THEN <<>> ELSE star.name, star.ra, star.dec,
             IF star.name = <<>> THEN <<>> ELSE AltitudeOf(user_altitudes, star.name[1]),
             IF star.name \in {<<>>, <<"">>} THEN <<>> ELSE <<time>>)

\* The entries of used_sights for the stars detected in an image.
ListedStars(request) ==
    IF request.detection = <<>> \/ ~request.detection[1].success THEN <<>>
    ELSE ListedRecords([k \in 1..Len(request.detection[1].stars) |->
                            StarAsRecord(request.detection[1].stars[k],
                                         request.data[1].altitudes,
                                         TimeOf(request))])

\* C24: in every successful result of calculate_position_from_data and of
\* process_image, used_sights has as many entries as the collection has
\* sights, two at least; and in every result used_sights lists, in their
\* order, the observations from which a Sight was constructed and no other:
\* one that is skipped or whose Sight fails is not listed, and those after
\* it are processed.
C24_UsedSightsAreTheSights ==
    Returned /\ last_request.data # <<>> =>
        \A result \in ServiceResults(last_request) :
            /\ result.success =>
                /\ Len(result.used_sights) = result.calculated_position[1].number_of_sights
                /\ Len(result.used_sights)
                     = Len(result.calculated_position[1].observation_times)
                /\ Len(result.used_sights) >= 2
            /\ (/\ FromRecords(last_request)
                /\ last_request.data[1].stars # <<>>
                /\ Len(last_request.data[1].stars[1]) >= 2)
                   => result.used_sights = ListedRecords(last_request.data[1].stars[1])
            /\ FromImage(last_request)
                   => result.used_sights = ListedStars(last_request)

\* calculate_position_from_data has been given three records, the second
\* one with a declination the constructor rejects, and has succeeded with
\* the first and the third.
C24_Witness ==
    /\ Returned
    /\ last_request.entry = "calculate_position_from_data"
    /\ last_request.data[1].stars # <<>>
    /\ Len(last_request.data[1].stars[1]) = 3
    /\ last_request.data[1].stars[1][2].isdict
    /\ last_request.data[1].stars[1][2].dec = <<9500>>
    /\ last_request.outcome.val.success
    /\ Len(last_request.outcome.val.used_sights) = 2
    /\ last_request.outcome.val.calculated_position[1].number_of_sights = 2

\* ------------------------------------------------------------------------
\* The routes of handle_request (BridgeSpec)
\* ------------------------------------------------------------------------

\* None or the empty string, None or the empty list: what `not value`
\* accepts.
NoText(value) == value = <<>> \/ value = <<"">>

NoList(value) == value = <<>> \/ value = <<<<>>>>

\* The handler a method name has, applied to the request; <<>> for a name
\* that has none.
OwnHandler(request, detection, now) ==
    IF request.method = <<"detect_stars">>
    THEN <<_handle_detect_stars(request.data, detection)>>
    ELSE IF request.method = <<"calculate_position">>
    THEN <<_handle_calculate_position(request.data)>>
    ELSE IF request.method = <<"calculate_from_names">>
    THEN <<_handle_calculate_from_names(request.data, now)>>
    ELSE IF request.method = <<"get_star_info">>
    THEN <<_handle_get_star_info(request.data)>>
    ELSE IF request.method = <<"list_stars">>
    THEN <<_handle_list_stars(request.data)>>
    ELSE IF request.method = <<"process_image">>
    THEN <<_handle_process_image(request.data, detection, now)>>
    ELSE <<>>

\* The message for the parameter a request lacks; <<>> when it lacks none.
RequiredMissing(request) ==
    IF /\ request.method \in {<<"detect_stars">>, <<"process_image">>}
       /\ NoText(request.data[1].image_path)
    THEN <<"image_path required">>
    ELSE IF request.method = <<"calculate_position">> /\ NoList(request.data[1].stars)
    THEN <<"stars data required">>
    ELSE IF /\ request.method = <<"calculate_from_names">>
            /\ NoList(request.data[1].observations)
    THEN <<"observations required">>
    ELSE IF /\ request.method = <<"get_star_info">>
            /\ NoText(request.data[1].name)
            /\ NoText(request.data[1].arabic_name)
    THEN <<"name or arabic_name required">>
    ELSE <<>>

\* C25: handle_request answers, for each of the six method names, what the
\* handler of that name answers (its exception caught), and for every other
\* name the failure 'Unknown method: <name>'.  When the parameter the
\* method requires is missing or empty the answer is a failure with the
\* keys 'success' and 'error' alone, naming the parameter, and it is the
\* same whatever the star detector and the clock would have answered:
\* neither the celestial service nor the detector is asked.
C25_EachMethodItsHandler ==
    Returned /\ last_request.entry = "handle_request" =>
        /\ last_request.outcome.exc = "none"
        /\ OwnHandler(last_request, last_request.detection, last_request.now) # <<>>
            => last_request.outcome.val
                 = Caught(OwnHandler(last_request, last_request.detection,
                                     last_request.now)[1])
        /\ OwnHandler(last_request, last_request.detection, last_request.now) = <<>>
            => last_request.outcome.val
                 = ErrorDict("Unknown method: "
                               \o IF last_request.method = <<>> THEN "None"
                                  ELSE last_request.method[1])
        /\ (last_request.data # <<>> /\ RequiredMissing(last_request) # <<>>)
            => /\ last_request.outcome.val = ErrorDict(RequiredMissing(last_request)[1])
               /\ ~last_request.outcome.val.success
               /\ \A detection \in DetectionInputs, now \in NowInputs :
                    handle_request(last_request.method, last_request.data,
                                   detection, now)
                      = last_request.outcome.val

\* handle_request has answered 'image_path required' to a detect_stars
\* request with an empty path, while the detector had stars to report; and
\* it has answered a name it does not know.
C25_Witness ==
    /\ Returned
    /\ last_request.entry = "handle_request"
    /\ \/ /\ last_request.method = <<"detect_stars">>
          /\ last_request.data # <<>>
          /\ last_request.data[1].image_path = <<"">>
          /\ last_request.detection # <<>>
          /\ last_request.detection[1].success
          /\ last_request.outcome.val.error = "image_path required"
       \/ /\ last_request.method = <<"navigate">>
          /\ last_request.outcome.val.error = "Unknown method: navigate"

\* ------------------------------------------------------------------------
\* The global service instance (InstanceSpec)
\* ------------------------------------------------------------------------

\* The instances constructed so far, and those returned to a caller.
Constructed ==
    UNION {{CallerOf(thread).made[k] : k \in 1..Len(CallerOf(thread).made)} :
            thread \in Threads}

ReceivedInstances ==
    UNION {{CallerOf(thread).received[k] : k \in 1..Len(CallerOf(thread).received)} :
            thread \in Threads}

\* C26: over any sequence of calls of get_service_instance, those
\* interleaved from several threads included, at most one
\* AndroidBridgeService is constructed and every caller is returned the
\* same instance.
C26_OneInstance ==
    /\ Cardinality(Constructed) <= 1
    /\ Cardinality(ReceivedInstances) <= 1

\* Two threads have each been returned an instance by a first call that
\* began before the other's had assigned the global.
C26_Witness ==
    /\ \A thread \in Threads :
        /\ CallerOf(thread).received # <<>>
        /\ CallerOf(thread).made # <<>>
    /\ Cardinality(ReceivedInstances) = 2

\* The calls of one thread, or calls that do not overlap: one instance.
OneInstanceInTurn ==
    (\E thread \in Threads : CallerOf(thread).made = <<>>) => C26_OneInstance

\* ------------------------------------------------------------------------
\* Properties of the planned route (RouteSpec, RouteFairSpec)
\* ------------------------------------------------------------------------

PlanReturned == last_call.called /\ last_call.stage = "returned"

\* The cells of which a point is the centre.
CellsAround(self, point) ==
    {cell \in Cells(self) : grid_to_latlon(self, cell[1], cell[2]) = point}

\* Two cells that touch by a side or by a corner.
Adjacent(a, b) == a # b /\ Abs(a[1] - b[1]) <= 1 /\ Abs(a[2] - b[2]) <= 1

\* The water cell a point stands for: its own cell, or the nearest water
\* cell when its own is land (and there is one).
SnappedCell(self, point) ==
    IF is_navigable(self, point[1], point[2])
    THEN latlon_to_grid(self, point[1], point[2])
    ELSE NearestWaterCell(self, latlon_to_grid(self, point[1], point[2]))[1]

IsWater(self, cell) == MaskAt(self, cell[1], cell[2]) = 1

\* C27: every route plan_route returns is a sequence of centres of water
\* cells, consecutive cells touching by a side or a corner, the first the
\* (snapped) start cell and the last the (snapped) end cell.
C27_RouteAvoidsLand ==
    PlanReturned /\ last_call.route # <<>> =>
        LET self == last_call.self
            route == last_call.route[1]
        IN  /\ \A k \in 1..Len(route) :
                \E cell \in CellsAround(self, route[k]) : IsWater(self, cell)
            /\ \A k \in 1..(Len(route) - 1) :
                \E a \in CellsAround(self, route[k]), b \in CellsAround(self, route[k + 1]) :
                    Adjacent(a, b)
            /\ SnappedCell(self, last_call.start) \in CellsAround(self, route[1])
            /\ SnappedCell(self, last_call.end) \in CellsAround(self, route[Len(route)])

\* plan_route has returned a route for a start on land: the nearest water
\* was found for it, and the first waypoint is the centre of a land cell.
C27_Witness ==
    /\ PlanReturned
    /\ last_call.route # <<>>
    /\ ~is_navigable(last_call.self, last_call.start[1], last_call.start[2])
    /\ Len(last_call.route[1]) >= 2
    /\ \A cell \in CellsAround(last_call.self, last_call.route[1][1]) :
            ~IsWater(last_call.self, cell)

\* The cells a water path leads to from the cells of a set.
RECURSIVE Reachable(_, _)
Reachable(self, seen) ==
    LET next == {cell \in Cells(self) :
                    /\ IsWater(self, cell)
                    /\ \E from \in seen : Adjacent(from, cell)}
    IN  IF next \subseteq seen THEN seen ELSE Reachable(self, seen \cup next)

\* plan_route has resolved its start and its end to water cells.
ResolvedToWater(call) ==
    /\ call.search # <<>>
    /\ IsWater(call.self, call.search[1].start_cell)
    /\ IsWater(call.self, call.search[1].end_cell)

RouteIffPath ==
    PlanReturned /\ ResolvedToWater(last_call) =>
        (last_call.route # <<>>
            <=> last_call.search[1].end_cell
                    \in Reachable(last_call.self, {last_call.search[1].start_cell}))

\* C28: every call of plan_route returns; and once the start and the end
\* are resolved to water cells, it returns a route if and only if a path of
\* water cells touching by a side or a corner leads from the one to the
\* other.
C28_ReturnsRouteIffPath ==
    /\ []RouteIffPath
    /\ (last_call.called ~> PlanReturned)

\* plan_route has returned None after its loop for two water cells that no
\* water path joins.
C28_Witness ==
    /\ PlanReturned
    /\ ResolvedToWater(last_call)
    /\ last_call.search[1].start_cell # last_call.search[1].end_cell
    /\ last_call.search[1].end_cell
            \notin Reachable(last_call.self, {last_call.search[1].start_cell})
    /\ last_call.route = <<>>

\* ------------------------------------------------------------------------
\* The range of the corrected altitude (SightSpec)
\* ------------------------------------------------------------------------

\* C29: for every Sight that is accepted the corrected altitude stays
\* strictly between 0 and 90 degrees, so that get_distance_from_gp is
\* strictly between 0 and a quarter of the circumference; a low altitude
\* observed from a great height never gives a corrected altitude of 0 or
\* less.
C29_CorrectedAltitudeInRange ==
    last_sight.called /\ last_sight.made # <<>> =>
        /\ last_sight.made[1].corrected_altitude > 0
        /\ last_sight.made[1].corrected_altitude < 90 * Deg
        /\ get_distance_from_gp(last_sight.made[1]) > 0
        /\ get_distance_from_gp(last_sight.made[1]) < ArcToDist(90 * Deg)

\* A Sight observed at 0.01 degrees has been accepted, and its corrected
\* altitude is below the horizon.
C29_Witness ==
    /\ last_sight.called
    /\ last_sight.made # <<>>
    /\ last_sight.altitude = 1
    /\ last_sight.apply_refraction
    /\ last_sight.made[1].corrected_altitude < 0
    /\ get_distance_from_gp(last_sight.made[1]) > ArcToDist(90 * Deg)

\* ------------------------------------------------------------------------
\* The responses of handle_json_request (BridgeSpec)
\* ------------------------------------------------------------------------

\* The text is that of a JSON object.
IsRequestObject(text) == text.kind = "text" /\ text.value.isobject

=============================================================================
